---- MODULE Spec2Model ----
(***************************************************************************)
(* A model of the riak-rust-client transport: one Client with its          *)
(* connection, one stream (a BucketStream or a KeyStream) with a           *)
(* connection of its own, and the server at the other end of every socket. *)
(*                                                                         *)
(* A socket carries two queues: `pending`, the request frames the client   *)
(* has written and the server has not finished answering, and `reps`, the  *)
(* reply frames the server has written and the client has not read.  Every *)
(* public call is one action; what the server and the network do to the    *)
(* socket while the call blocks in receive is an input of the action.  The *)
(* variable `last` records what the most recent call did.                  *)
(***************************************************************************)
EXTENDS Integers, Sequences, FiniteSets, TLC

\* ---------------------------------------------------------------- bounds
\* calls made in one behaviour: every call of an operation of Client or of
\* next() counts for one, a call of all() for one per frame it waited for
MaxCalls == 2
\* requests a socket holds unanswered when a read on it times out
MaxUnanswered == 1
\* bytes in the payload of a frame whose bytes are modelled
MaxLen == 2
\* frames without the done flag a server sends before its done frame
MaxFrames == 2
\* operations each of two concurrent workers calls
MaxWorkerOps == 2
\* calls made on a Client whose node stores what it is sent
MaxObjCalls == 4
\* replies of that node on their way to the Client when a read times out
MaxLate == 2
MaxNexts == 3

\* ------------------------------------------------------------- constants
\* ServerError.code is a u8
U8 == 256
\* the timeout (seconds) of a Client made by Client::new
DEFAULT_TIMEOUT == 3600
\* the timeouts a caller passes to new_with_timeout and set_timeout
Timeouts == {DEFAULT_TIMEOUT, 5}
\* the address of the Riak node
Addr == "riak:8087"

Streams == {"stream"}
ConnIds == {"client"} \cup Streams

\* bucket names and keys are byte strings; 97 is ASCII "a", 255 is a byte
\* that occurs in no well-formed UTF-8 text
Names == {<<97>>, <<255>>}
Batches == {<<>>} \cup {<<n>> : n \in Names}
\* error codes (u32 on the wire) and the message a server may put in an
\* RpbErrorResp
ErrCodes == {42, 300}
ErrMsg == <<98>>

\* ------------------------------------------------------------ errors.rs
NoErr == [kind |-> "none", cause |-> "", code |-> 0, data |-> <<>>]
IoError(cause) == [kind |-> "IoError", cause |-> cause, code |-> 0, data |-> <<>>]
\* a faulty variant of ProtobufError: the failure is reported as an IoError
ProtobufError_as_io(cause) == IoError(cause)

ProtobufError(cause) ==
    [kind |-> "ProtobufError", cause |-> cause, code |-> 0, data |-> <<>>]
\* ServerError::new(error_code: u8, error_data)
ServerError_new(error_code, error_data) ==
    [kind |-> "ServerError", cause |-> "", code |-> error_code % U8, data |-> error_data]

Ok(val) == [tag |-> "Ok", err |-> NoErr, val |-> val]
Err(error) == [tag |-> "Err", err |-> error, val |-> <<>>]
None == [tag |-> "None", err |-> NoErr, val |-> <<>>]
IsErr(res) == res.tag = "Err"

\* ---------------------------------------------------------------- frames
NoFrame ==
    [code |-> "none", ok |-> FALSE, names |-> <<>>, done |-> FALSE,
     errcode |-> 0, errmsg |-> <<>>, re |-> 0, seq |-> 0]
\* a reply frame whose payload parses as the record the response code names
DataFrame(code, names, done) ==
    [code |-> code, ok |-> TRUE, names |-> names, done |-> done,
     errcode |-> 0, errmsg |-> <<>>, re |-> 0, seq |-> 0]
\* a reply frame whose payload does not parse
GarbageFrame(code) ==
    [code |-> code, ok |-> FALSE, names |-> <<>>, done |-> FALSE,
     errcode |-> 0, errmsg |-> <<>>, re |-> 0, seq |-> 0]
\* an RpbErrorResp frame
ErrorFrame(errcode, errmsg) ==
    [code |-> "RpbErrorResp", ok |-> TRUE, names |-> <<>>, done |-> FALSE,
     errcode |-> errcode, errmsg |-> errmsg, re |-> 0, seq |-> 0]

\* ------------------------------------------------------------ the server
StreamReqs == {"RpbListBucketsReq", "RpbListKeysReq"}

\* the response code the protocol pairs with a request code
RespOf(req) ==
    CASE req = "RpbPingReq" -> "RpbPingResp"
      [] req = "RpbGetServerInfoReq" -> "RpbGetServerInfoResp"
      [] req = "RpbGetReq" -> "RpbGetResp"
      [] req = "RpbPutReq" -> "RpbPutResp"
      [] req = "RpbDelReq" -> "RpbDelResp"
      [] req = "RpbListBucketsReq" -> "RpbListBucketsResp"
      [] req = "RpbListKeysReq" -> "RpbListKeysResp"
      [] req = "RpbGetBucketReq" -> "RpbGetBucketResp"
      [] req = "RpbSetBucketReq" -> "RpbSetBucketResp"
      [] req = "RpbResetBucketReq" -> "RpbResetBucketResp"
      [] req = "RpbGetBucketTypeReq" -> "RpbGetBucketResp"
      [] req = "RpbSetBucketTypeReq" -> "RpbSetBucketResp"
      [] req = "RpbGetBucketKeyPreflistReq" -> "RpbGetBucketKeyPreflistResp"
      [] req = "RpbYokozunaSchemaPutReq" -> "RpbPutResp"
      [] req = "RpbYokozunaSchemaGetReq" -> "RpbYokozunaSchemaGetResp"
      [] req = "RpbYokozunaIndexPutReq" -> "RpbPutResp"
      [] req = "RpbYokozunaIndexGetReq" -> "RpbYokozunaIndexGetResp"
      [] req = "RpbYokozunaIndexDeleteReq" -> "RpbDelResp"

\* a response code that is neither the one paired with req nor RpbErrorResp
OtherCode(req) ==
    IF RespOf(req) = "RpbPingResp" THEN "RpbGetResp" ELSE "RpbPingResp"

\* the frames a server may write in answer to a request
ReplyFrames(req) ==
    (IF req \in StreamReqs
        THEN {DataFrame(RespOf(req), b, d) : b \in Batches, d \in BOOLEAN}
        ELSE {DataFrame(RespOf(req), <<>>, FALSE)})
    \cup {GarbageFrame(RespOf(req))}
    \cup {ErrorFrame(c, ErrMsg) : c \in ErrCodes}
    \cup {GarbageFrame(OtherCode(req))}

\* a frame ends the server's answer to a request unless the request opened
\* a stream and the frame is neither its done frame nor an error
Finishes(req, f) ==
    \/ req \notin StreamReqs
    \/ f.code = "RpbErrorResp"
    \/ (f.ok /\ f.done)

\* the socket after the server wrote one more frame for the oldest request;
\* the frame remembers the request it answers (re) and its rank among the
\* frames written on the socket (seq)
ServerProduce(cn) ==
    LET p == Head(cn.pending) IN
    { [cn EXCEPT !.reps = Append(@, [f EXCEPT !.re = p.id, !.seq = cn.nsent + 1]),
                 !.nsent = @ + 1,
                 !.pending = IF Finishes(p.code, f) THEN Tail(@) ELSE @]
      : f \in ReplyFrames(p.code) }

\* the socket closed by the peer or by the network: nothing written on it
\* is answered or read any more
Closed(cn) == [cn EXCEPT !.alive = FALSE, !.pending = <<>>, !.reps = <<>>]

\* what a blocked read finds when it returns: the socket closed, nothing
\* (the read times out and the requests stay unanswered), or the next frame
\* of the server.  A frame the server wrote before the read began is read
\* the same way, so frames are written when a read waits for them.
Wait(cn) ==
    IF ~cn.alive THEN {cn}
    ELSE IF cn.reps # <<>> THEN {Closed(cn), cn}
    ELSE {Closed(cn)}
         \cup (IF Len(cn.pending) <= MaxUnanswered THEN {cn} ELSE {})
         \cup (IF cn.pending # <<>> THEN ServerProduce(cn) ELSE {})

\* ------------------------------------------------------------- RiakConn
\* a connection: the address and the timeout recorded when it was opened,
\* and a socket with fresh queues and counters
Socket(alive, gen, peer_addr, timeout) ==
    [alive |-> alive, gen |-> gen, peer_addr |-> peer_addr, timeout |-> timeout,
     pending |-> <<>>, reps |-> <<>>, nreq |-> 0, nsent |-> 0, nrep |-> 0]
NoConn == Socket(FALSE, 0, "none", 0)

\* RiakConn::new(addr, timeout)
RiakConn_new(addr, timeout, ok) ==
    IF ok THEN [conn |-> Socket(TRUE, 1, addr, timeout), res |-> Ok(<<>>)]
    ELSE [conn |-> NoConn, res |-> Err(IoError("connect"))]

\* a faulty variant of RiakConn_reconnect: the new socket is opened with the
\* default timeout, not with the one recorded
RiakConn_reconnect_default_timeout(cn, ok) ==
    [conn |-> Socket(ok, cn.gen + 1, cn.peer_addr, DEFAULT_TIMEOUT),
     res |-> IF ok THEN Ok(<<>>) ELSE Err(IoError("reconnect"))]

\* RiakConn::reconnect: closes the socket, opens a new one with the address
\* and the timeout recorded
RiakConn_reconnect(cn, ok) ==
    [conn |-> Socket(ok, cn.gen + 1, cn.peer_addr, cn.timeout),
     res |-> IF ok THEN Ok(<<>>) ELSE Err(IoError("reconnect"))]

\* RiakConn::send(code, payload)
send(cn, code) ==
    IF ~cn.alive
    THEN [conn |-> cn, res |-> Err(IoError("send"))]
    ELSE [conn |-> [cn EXCEPT !.pending = Append(@, [id |-> cn.nreq + 1, code |-> code]),
                              !.nreq = @ + 1],
          res |-> Ok(<<>>)]

\* RiakConn::receive(expected_code); nth and nreq record, for the frame read,
\* its rank among the frames read from the socket and the number of requests
\* written on the socket so far
receive(cn, expected_code) ==
    IF ~cn.alive
    THEN [conn |-> cn, res |-> Err(IoError("closed")), frame |-> NoFrame,
          nth |-> 0, nreq |-> 0]
    ELSE IF cn.reps = <<>>
    THEN [conn |-> cn, res |-> Err(IoError("timeout")), frame |-> NoFrame,
          nth |-> 0, nreq |-> 0]
    ELSE LET f == Head(cn.reps)
             c2 == [cn EXCEPT !.reps = Tail(@), !.nrep = @ + 1]
         IN [conn |-> c2, frame |-> f, nth |-> c2.nrep, nreq |-> c2.nreq,
             res |-> IF f.code = "RpbErrorResp"
                         THEN Err(ServerError_new(f.errcode, f.errmsg))
                     ELSE IF f.code = expected_code
                         THEN Ok(f)
                     ELSE Err(IoError("unexpected_code"))]

\* a faulty variant of exchange: receive is called even when send failed
exchange_receiving_after_failed_send(cn, request_code, expected_code) ==
    LET s == send(cn, request_code) IN
    { LET r == receive(c2, expected_code) IN
      [conn |-> r.conn, res |-> r.res, frame |-> r.frame, nth |-> r.nth,
       nreq |-> r.nreq, sends |-> 1, recvs |-> 1, wrote |-> ~IsErr(s.res)]
      : c2 \in Wait(s.conn) }

\* RiakConn::exchange(request_code, expected_code, payload): every way the
\* dialogue can go, one per behaviour of the server during the wait
exchange(cn, request_code, expected_code) ==
    LET s == send(cn, request_code) IN
    IF IsErr(s.res)
    THEN {[conn |-> s.conn, res |-> s.res, frame |-> NoFrame, nth |-> 0, nreq |-> 0,
           sends |-> 1, recvs |-> 0, wrote |-> FALSE]}
    ELSE { LET r == receive(c2, expected_code) IN
           [conn |-> r.conn, res |-> r.res, frame |-> r.frame, nth |-> r.nth,
            nreq |-> r.nreq, sends |-> 1, recvs |-> 1, wrote |-> TRUE]
           : c2 \in Wait(s.conn) }

\* ------------------------------------------------- the bytes on the wire
\* the u8 a message code is on the wire
code_byte(code) ==
    CASE code = "RpbErrorResp" -> 0
      [] code = "RpbPingReq" -> 1
      [] code = "RpbPingResp" -> 2
      [] code = "RpbGetServerInfoReq" -> 7
      [] code = "RpbGetServerInfoResp" -> 8
      [] code = "RpbGetReq" -> 9
      [] code = "RpbGetResp" -> 10
      [] code = "RpbPutReq" -> 11
      [] code = "RpbPutResp" -> 12
      [] code = "RpbDelReq" -> 13
      [] code = "RpbDelResp" -> 14
      [] code = "RpbSetBucketReq" -> 21
      [] code = "RpbListBucketsReq" -> 15
      [] code = "RpbListBucketsResp" -> 16
      [] code = "RpbSetBucketResp" -> 22

\* the values a byte of a payload takes in the model
Bytes == {0, 255}
\* the payloads of at most MaxLen bytes
Payloads == UNION {[1..n -> Bytes] : n \in 0..MaxLen}

\* a u32 in big-endian order, and back
be32(n) ==
    <<(n \div 16777216) % 256, (n \div 65536) % 256, (n \div 256) % 256, n % 256>>
from_be32(b) == ((b[1] * 256 + b[2]) * 256 + b[3]) * 256 + b[4]

\* a faulty variant of frame_bytes: the length counts the payload only
frame_bytes_length_without_code(code, payload) ==
    be32(Len(payload)) \o <<code>> \o payload

\* the bytes send(code, payload) writes: the length 1 + len(payload) as a
\* u32 in big-endian order, the code, the payload
frame_bytes(code, payload) ==
    be32(1 + Len(payload)) \o <<code>> \o payload

\* the payload of an RpbErrorResp: field 1 (errmsg, bytes) and field 2
\* (errcode, a varint below 128)
error_resp_bytes(errcode, errmsg) == <<10, Len(errmsg)>> \o errmsg \o <<16, errcode>>
parse_error_resp(payload) ==
    IF /\ Len(payload) >= 4
       /\ payload[1] = 10
       /\ Len(payload) = payload[2] + 4
       /\ payload[Len(payload) - 1] = 16
       /\ payload[Len(payload)] < 128
    THEN Err(ServerError_new(payload[Len(payload)],
                             SubSeq(payload, 3, Len(payload) - 2)))
    ELSE Err(ProtobufError("parse"))

\* a faulty variant of read_frame: the payload read is total_len bytes long
read_frame_one_byte_more(bytes, expected) ==
    IF Len(bytes) < 5 THEN [res |-> Err(IoError("short_read")), rest |-> <<>>]
    ELSE LET total_len == from_be32(SubSeq(bytes, 1, 4))
             code == bytes[5]
         IN IF total_len < 1 \/ Len(bytes) < 5 + total_len
            THEN [res |-> Err(IoError("short_read")), rest |-> <<>>]
            ELSE LET payload == SubSeq(bytes, 6, 5 + total_len)
                     rest == SubSeq(bytes, 6 + total_len, Len(bytes))
                 IN [rest |-> rest,
                     res |-> IF code = code_byte("RpbErrorResp")
                                 THEN parse_error_resp(payload)
                             ELSE IF code = expected THEN Ok(payload)
                             ELSE Err(IoError("unexpected_code"))]

\* a faulty variant of read_frame: a frame without a payload is refused
read_frame_refusing_empty(bytes, expected) ==
    IF Len(bytes) < 5 THEN [res |-> Err(IoError("short_read")), rest |-> <<>>]
    ELSE LET total_len == from_be32(SubSeq(bytes, 1, 4))
             code == bytes[5]
         IN IF total_len < 2 \/ Len(bytes) < 4 + total_len
            THEN [res |-> Err(IoError("short_read")), rest |-> <<>>]
            ELSE LET payload == SubSeq(bytes, 6, 4 + total_len)
                     rest == SubSeq(bytes, 5 + total_len, Len(bytes))
                 IN [rest |-> rest,
                     res |-> IF code = code_byte("RpbErrorResp")
                                 THEN parse_error_resp(payload)
                             ELSE IF code = expected THEN Ok(payload)
                             ELSE Err(IoError("unexpected_code"))]

\* what receive(expected) reads from the bytes waiting on the socket: four
\* bytes of length, one of code, total_len - 1 of payload; rest is what it
\* leaves on the socket
read_frame(bytes, expected) ==
    IF Len(bytes) < 5 THEN [res |-> Err(IoError("short_read")), rest |-> <<>>]
    ELSE LET total_len == from_be32(SubSeq(bytes, 1, 4))
             code == bytes[5]
         IN IF total_len < 1 \/ Len(bytes) < 4 + total_len
            THEN [res |-> Err(IoError("short_read")), rest |-> <<>>]
            ELSE LET payload == SubSeq(bytes, 6, 4 + total_len)
                     rest == SubSeq(bytes, 5 + total_len, Len(bytes))
                 IN [rest |-> rest,
                     res |-> IF code = code_byte("RpbErrorResp")
                                 THEN parse_error_resp(payload)
                             ELSE IF code = expected THEN Ok(payload)
                             ELSE Err(IoError("unexpected_code"))]

\* ------------------------------------------------------------ the state
NoWire == [phase |-> "none"]
NoRiak == [phase |-> "none"]
NoLoop == [phase |-> "none", list |-> <<>>, res |-> None]
NoRequest == [phase |-> "none"]
NoWorkers == [phase |-> "none"]

\* conn: the connection of the Client and of every stream; timeout: the
\* timeout field of the Client; stream: the flags of every stream;
\* delivered, recvd: the batches a stream returned and the frames they came
\* from; last: what the most recent call did; calls: the calls made so far;
\* wire: the bytes of one dialogue on a socket; riak: the objects the node
\* stores and its replies on their way to the Client; loop: the loop of an
\* all() that is followed one next() at a time; request: a request of the
\* caller, the protobuf record made from it and what the call returned;
\* workers: two workers that call operations at the same time, and their
\* sockets
VARIABLES conn, timeout, stream, delivered, recvd, last, calls, wire, riak, loop,
          request, workers
vars == <<conn, timeout, stream, delivered, recvd, last, calls, wire, riak, loop,
          request, workers>>

NoCall ==
    [who |-> "none", op |-> "none", res |-> None, frame |-> NoFrame,
     nth |-> 0, nreq |-> 0, request |-> "none", expected |-> "none",
     nexts |-> <<>>, sends |-> 0, recvs |-> 0,
     reconn |-> "none", orig |-> NoErr, gen0 |-> 0,
     wasDone |-> FALSE, wasFrm |-> FALSE, outstanding |-> 0 - 1]

NoStream ==
    [live |-> FALSE, kind |-> "none", done |-> FALSE, first_request_made |-> FALSE]

\* the state after Client::new_with_timeout(Addr, t)
ClientInit ==
    /\ \E t \in Timeouts :
         /\ conn = [c \in ConnIds |->
                      IF c = "client" THEN Socket(TRUE, 1, Addr, t) ELSE NoConn]
         /\ timeout = t
    /\ stream = [s \in Streams |-> NoStream]
    /\ delivered = [s \in Streams |-> <<>>]
    /\ recvd = [s \in Streams |-> <<>>]
    /\ last = NoCall
    /\ calls = 0

Init ==
    /\ ClientInit
    /\ wire = NoWire
    /\ riak = NoRiak
    /\ loop = NoLoop
    /\ request = NoRequest
    /\ workers = NoWorkers

\* replies not yet read and requests not yet answered on a socket
Outstanding(cn) == Len(cn.pending) + Len(cn.reps)

\* ------------------------------------------------------- Client (lib.rs)
\* a faulty variant of Client_call: a failed exchange is followed by a
\* reconnect, as in a stream
Client_call_reconnecting(cn, request_code, expected_code, parses) ==
    { [conn |-> IF IsErr(x.res) THEN RiakConn_reconnect(x.conn, TRUE).conn ELSE x.conn,
       frame |-> x.frame, nth |-> x.nth, nreq |-> x.nreq,
       sends |-> x.sends, recvs |-> x.recvs, wrote |-> x.wrote,
       reconn |-> IF IsErr(x.res) THEN "ok" ELSE "none",
       res |-> IF IsErr(x.res) THEN x.res
               ELSE IF ~parses THEN Ok(<<>>)
               ELSE IF ~x.frame.ok THEN Err(ProtobufError("parse"))
               ELSE Ok(x.frame.names),
       orig |-> IF IsErr(x.res) THEN x.res.err
                ELSE IF parses /\ ~x.frame.ok THEN ProtobufError("parse")
                ELSE NoErr]
      : x \in exchange(cn, request_code, expected_code) }

\* a faulty variant of Client_call: an operation that returns no data does
\* not look at the result of the exchange
Client_call_ignoring_error(cn, request_code, expected_code, parses) ==
    { [conn |-> x.conn, frame |-> x.frame, nth |-> x.nth, nreq |-> x.nreq,
       sends |-> x.sends, recvs |-> x.recvs, wrote |-> x.wrote, reconn |-> "none",
       res |-> IF ~parses THEN Ok(<<>>)
               ELSE IF IsErr(x.res) THEN x.res
               ELSE IF ~x.frame.ok THEN Err(ProtobufError("parse"))
               ELSE Ok(x.frame.names),
       orig |-> IF IsErr(x.res) THEN x.res.err
                ELSE IF parses /\ ~x.frame.ok THEN ProtobufError("parse")
                ELSE NoErr]
      : x \in exchange(cn, request_code, expected_code) }

\* the body shared by the operations of Client: one exchange, then (for the
\* operations that return data) parse_from_bytes on the reply payload
Client_call(cn, request_code, expected_code, parses) ==
    { [conn |-> x.conn, frame |-> x.frame, nth |-> x.nth, nreq |-> x.nreq,
       sends |-> x.sends, recvs |-> x.recvs, wrote |-> x.wrote, reconn |-> "none",
       res |-> IF IsErr(x.res) THEN x.res
               ELSE IF ~parses THEN Ok(<<>>)
               ELSE IF ~x.frame.ok THEN Err(ProtobufError("parse"))
               ELSE Ok(x.frame.names),
       orig |-> IF IsErr(x.res) THEN x.res.err
                ELSE IF parses /\ ~x.frame.ok THEN ProtobufError("parse")
                ELSE NoErr]
      : x \in exchange(cn, request_code, expected_code) }

ClientStep(op, request_code, expected_code, parses) ==
    /\ calls < MaxCalls
    /\ \E o \in Client_call(conn["client"], request_code, expected_code, parses) :
         /\ conn' = [conn EXCEPT !["client"] = o.conn]
         /\ last' = [who |-> "client", op |-> op, res |-> o.res, frame |-> o.frame,
                     nth |-> o.nth, nreq |-> o.nreq, request |-> request_code,
                     expected |-> expected_code, nexts |-> <<>>,
                     sends |-> o.sends, recvs |-> o.recvs,
                     reconn |-> o.reconn, orig |-> o.orig, gen0 |-> conn["client"].gen,
                     wasDone |-> FALSE, wasFrm |-> FALSE,
                     outstanding |-> IF o.wrote THEN Outstanding(conn["client"])
                                     ELSE 0 - 1]
    /\ calls' = calls + 1
    /\ UNCHANGED <<timeout, stream, delivered, recvd, wire, loop, request, workers, riak>>

ping == ClientStep("ping", "RpbPingReq", "RpbPingResp", FALSE)
server_info ==
    ClientStep("server_info", "RpbGetServerInfoReq", "RpbGetServerInfoResp", TRUE)
set_bucket_properties ==
    ClientStep("set_bucket_properties", "RpbSetBucketReq", "RpbSetBucketResp", FALSE)
get_bucket_properties ==
    ClientStep("get_bucket_properties", "RpbGetBucketReq", "RpbGetBucketResp", TRUE)
set_bucket_type_properties ==
    ClientStep("set_bucket_type_properties", "RpbSetBucketTypeReq", "RpbSetBucketResp", FALSE)
get_bucket_type_properties ==
    ClientStep("get_bucket_type_properties", "RpbGetBucketTypeReq", "RpbGetBucketResp", TRUE)
reset_bucket ==
    ClientStep("reset_bucket", "RpbResetBucketReq", "RpbResetBucketResp", FALSE)
store_object == ClientStep("store_object", "RpbPutReq", "RpbPutResp", FALSE)
fetch_object == ClientStep("fetch_object", "RpbGetReq", "RpbGetResp", TRUE)
delete_object == ClientStep("delete_object", "RpbDelReq", "RpbDelResp", FALSE)
fetch_preflist ==
    ClientStep("fetch_preflist", "RpbGetBucketKeyPreflistReq",
               "RpbGetBucketKeyPreflistResp", TRUE)
\* a faulty variant of set_yokozuna_schema: a response code of its own is
\* expected, not the Put response code
set_yokozuna_schema_own_response ==
    ClientStep("set_yokozuna_schema", "RpbYokozunaSchemaPutReq",
               "RpbYokozunaSchemaPutResp", FALSE)

set_yokozuna_schema ==
    ClientStep("set_yokozuna_schema", "RpbYokozunaSchemaPutReq", "RpbPutResp", FALSE)
get_yokozuna_schema ==
    ClientStep("get_yokozuna_schema", "RpbYokozunaSchemaGetReq",
               "RpbYokozunaSchemaGetResp", TRUE)
set_yokozuna_index ==
    ClientStep("set_yokozuna_index", "RpbYokozunaIndexPutReq", "RpbPutResp", FALSE)
get_yokozuna_index ==
    ClientStep("get_yokozuna_index", "RpbYokozunaIndexGetReq",
               "RpbYokozunaIndexGetResp", TRUE)
delete_yokozuna_index ==
    ClientStep("delete_yokozuna_index", "RpbYokozunaIndexDeleteReq", "RpbDelResp", FALSE)

\* Client::reconnect
reconnect ==
    /\ calls < MaxCalls
    /\ \E ok \in BOOLEAN :
         LET r == RiakConn_reconnect(conn["client"], ok) IN
         /\ conn' = [conn EXCEPT !["client"] = r.conn]
         /\ last' = [NoCall EXCEPT !.who = "client", !.op = "reconnect", !.res = r.res,
                                   !.reconn = IF ok THEN "ok" ELSE "failed",
                                   !.orig = r.res.err, !.gen0 = conn["client"].gen]
    /\ calls' = calls + 1
    /\ UNCHANGED <<timeout, stream, delivered, recvd, wire, loop, request, workers, riak>>

\* Client::set_timeout
set_timeout ==
    /\ calls < MaxCalls
    /\ \E t \in Timeouts :
         /\ timeout' = t
         /\ last' = [NoCall EXCEPT !.who = "client", !.op = "set_timeout",
                                   !.res = Ok(<<>>), !.gen0 = conn["client"].gen]
    /\ calls' = calls + 1
    /\ UNCHANGED <<conn, stream, delivered, recvd, wire, loop, request, workers, riak>>

ClientOps ==
    \/ ping \/ server_info
    \/ set_bucket_properties \/ get_bucket_properties
    \/ set_bucket_type_properties \/ get_bucket_type_properties
    \/ reset_bucket
    \/ store_object \/ fetch_object \/ delete_object
    \/ fetch_preflist
    \/ set_yokozuna_schema \/ get_yokozuna_schema
    \/ set_yokozuna_index \/ get_yokozuna_index \/ delete_yokozuna_index

\* ---------------------------------------------------- streams (stream.rs)
\* String::from_utf8_lossy: a byte that cannot occur in UTF-8 becomes
\* U+FFFD, whose encoding is EF BF BD
RECURSIVE String_from_utf8_lossy(_)
String_from_utf8_lossy(bytes) ==
    IF bytes = <<>> THEN <<>>
    ELSE (IF Head(bytes) < 128 THEN <<Head(bytes)>> ELSE <<239, 191, 189>>)
         \o String_from_utf8_lossy(Tail(bytes))

\* BucketStream::next: the Vec<String> built from rpb_resp.get_buckets()
buckets_of(names) == [i \in 1..Len(names) |-> String_from_utf8_lossy(names[i])]
\* KeyStream::next: the Vec<Vec<u8>> built from rpb_resp.take_keys()
keys_of(names) == names

\* what the two stream types do differently: the codes and the batch
request_code_of(kind) ==
    IF kind = "bucket" THEN "RpbListBucketsReq" ELSE "RpbListKeysReq"
expected_code_of(kind) ==
    IF kind = "bucket" THEN "RpbListBucketsResp" ELSE "RpbListKeysResp"
batch_of(kind, names) ==
    IF kind = "bucket" THEN buckets_of(names) ELSE keys_of(names)

\* a faulty variant of the block below: the error that led to the reconnect
\* is returned even when the reconnect fails
reconnect_then_fail_original_wins(cn, error, ok) ==
    LET r == RiakConn_reconnect(cn, ok) IN
    [conn |-> r.conn, res |-> Err(error),
     reconn |-> IF ok THEN "ok" ELSE "failed"]

\* the block that follows a failure: reconnect, return the reconnect error
\* if there is one and the error that led here otherwise
reconnect_then_fail(cn, error, ok) ==
    LET r == RiakConn_reconnect(cn, ok) IN
    [conn |-> r.conn, res |-> IF IsErr(r.res) THEN r.res ELSE Err(error),
     reconn |-> IF ok THEN "ok" ELSE "failed"]

\* a faulty variant of next_subsequent: a reply that does not parse is
\* reported without a reconnect
next_subsequent_parse_no_reconnect(st, cn, kind) ==
    { LET r == receive(c2, expected_code_of(kind))
          base == [st |-> st, conn |-> r.conn, res |-> r.res, frame |-> r.frame,
                   nth |-> r.nth, nreq |-> r.nreq,
                   sends |-> 0, recvs |-> 1, wrote |-> FALSE, reconn |-> "none",
                   orig |-> r.res.err]
      IN IF IsErr(r.res) THEN base
         ELSE IF ~r.frame.ok
         THEN [base EXCEPT !.res = Err(ProtobufError("parse")),
                           !.orig = ProtobufError("parse")]
         ELSE [base EXCEPT !.st = [st EXCEPT !.done = r.frame.done],
                           !.res = Ok(batch_of(kind, r.frame.names))]
      : c2 \in Wait(cn) }

\* a faulty variant of next_subsequent: done is not updated from the frame
next_subsequent_not_updating_done(st, cn, kind) ==
    { LET r == receive(c2, expected_code_of(kind))
          base == [st |-> st, conn |-> r.conn, res |-> r.res, frame |-> r.frame,
                   nth |-> r.nth, nreq |-> r.nreq,
                   sends |-> 0, recvs |-> 1, wrote |-> FALSE, reconn |-> "none",
                   orig |-> r.res.err]
      IN IF IsErr(r.res) THEN base
         ELSE IF ~r.frame.ok
         THEN LET f == reconnect_then_fail(r.conn, ProtobufError("parse"), ok) IN
              [base EXCEPT !.conn = f.conn, !.res = f.res, !.reconn = f.reconn,
                           !.orig = ProtobufError("parse")]
         ELSE [base EXCEPT !.res = Ok(batch_of(kind, r.frame.names))]
      : c2 \in Wait(cn), ok \in BOOLEAN }

\* next(), first_request_made = true: receive one frame and parse it
next_subsequent(st, cn, kind) ==
    { LET r == receive(c2, expected_code_of(kind))
          base == [st |-> st, conn |-> r.conn, res |-> r.res, frame |-> r.frame,
                   nth |-> r.nth, nreq |-> r.nreq,
                   sends |-> 0, recvs |-> 1, wrote |-> FALSE, reconn |-> "none",
                   orig |-> r.res.err]
      IN IF IsErr(r.res) THEN base
         ELSE IF ~r.frame.ok
         THEN LET f == reconnect_then_fail(r.conn, ProtobufError("parse"), ok) IN
              [base EXCEPT !.conn = f.conn, !.res = f.res, !.reconn = f.reconn,
                           !.orig = ProtobufError("parse")]
         ELSE [base EXCEPT !.st = [st EXCEPT !.done = r.frame.done],
                           !.res = Ok(batch_of(kind, r.frame.names))]
      : c2 \in Wait(cn), ok \in BOOLEAN }

\* a faulty variant of next_first: first_request_made is left as it was
next_first_not_marking(st, cn, kind) ==
    { LET base == [st |-> st, conn |-> x.conn, res |-> x.res, frame |-> x.frame,
                   nth |-> x.nth, nreq |-> x.nreq,
                   sends |-> x.sends, recvs |-> x.recvs, wrote |-> x.wrote,
                   reconn |-> "none", orig |-> x.res.err]
      IN IF IsErr(x.res)
         THEN LET f == reconnect_then_fail(x.conn, x.res.err, ok) IN
              [base EXCEPT !.conn = f.conn, !.res = f.res, !.reconn = f.reconn]
         ELSE IF ~x.frame.ok
         THEN LET f == reconnect_then_fail(x.conn, ProtobufError("parse"), ok) IN
              [base EXCEPT !.conn = f.conn, !.res = f.res, !.reconn = f.reconn,
                           !.orig = ProtobufError("parse")]
         ELSE [base EXCEPT !.st = [st EXCEPT !.done = x.frame.done],
                           !.res = Ok(batch_of(kind, x.frame.names))]
      : x \in exchange(cn, request_code_of(kind), expected_code_of(kind)),
        ok \in BOOLEAN }

\* next(), first_request_made = false: build the request, exchange, parse
next_first(st, cn, kind) ==
    { LET base == [st |-> st, conn |-> x.conn, res |-> x.res, frame |-> x.frame,
                   nth |-> x.nth, nreq |-> x.nreq,
                   sends |-> x.sends, recvs |-> x.recvs, wrote |-> x.wrote,
                   reconn |-> "none", orig |-> x.res.err]
      IN IF IsErr(x.res)
         THEN LET f == reconnect_then_fail(x.conn, x.res.err, ok) IN
              [base EXCEPT !.conn = f.conn, !.res = f.res, !.reconn = f.reconn]
         ELSE IF ~x.frame.ok
         THEN LET f == reconnect_then_fail(x.conn, ProtobufError("parse"), ok) IN
              [base EXCEPT !.conn = f.conn, !.res = f.res, !.reconn = f.reconn,
                           !.orig = ProtobufError("parse")]
         ELSE [base EXCEPT !.st = [st EXCEPT !.first_request_made = TRUE,
                                             !.done = x.frame.done],
                           !.res = Ok(batch_of(kind, x.frame.names))]
      : x \in exchange(cn, request_code_of(kind), expected_code_of(kind)),
        ok \in BOOLEAN }

\* a faulty variant of next: first_request_made is not consulted, every call
\* that is not at the end of the stream sends the request again
next_resending(st, cn, kind) ==
    IF st.done
    THEN {[st |-> st, conn |-> cn, res |-> None, frame |-> NoFrame,
           nth |-> 0, nreq |-> 0, sends |-> 0, recvs |-> 0, wrote |-> FALSE,
           reconn |-> "none", orig |-> NoErr]}
    ELSE next_first(st, cn, kind)

\* a faulty variant of next: done is not consulted
next_without_done_check(st, cn, kind) ==
    IF st.first_request_made
    THEN next_subsequent(st, cn, kind)
    ELSE next_first(st, cn, kind)

\* BucketStream::next / KeyStream::next
next(st, cn, kind) ==
    IF st.done
    THEN {[st |-> st, conn |-> cn, res |-> None, frame |-> NoFrame,
           nth |-> 0, nreq |-> 0, sends |-> 0, recvs |-> 0, wrote |-> FALSE, reconn |-> "none",
           orig |-> NoErr]}
    ELSE IF st.first_request_made
    THEN next_subsequent(st, cn, kind)
    ELSE next_first(st, cn, kind)

\* a faulty variant of Stream_new: the connection is opened with the timeout
\* field of the Client, not with the timeout of the Client's connection
Stream_new_with_client_field(s, kind, op) ==
    /\ ~stream[s].live
    /\ \E ok \in BOOLEAN :
         LET r == RiakConn_new(conn["client"].peer_addr, timeout, ok) IN
         /\ conn' = [conn EXCEPT ![s] = r.conn]
         /\ stream' = [stream EXCEPT ![s] =
                          IF ok THEN [live |-> TRUE, kind |-> kind, done |-> FALSE,
                                      first_request_made |-> FALSE]
                          ELSE NoStream]
         /\ last' = [NoCall EXCEPT !.who = s, !.op = op, !.res = r.res,
                                   !.orig = r.res.err]
    /\ UNCHANGED <<timeout, delivered, recvd, calls, wire, loop, request, workers, riak>>

\* BucketStream::new / KeyStream::new
Stream_new(s, kind, op) ==
    /\ ~stream[s].live
    /\ \E ok \in BOOLEAN :
         LET r == RiakConn_new(conn["client"].peer_addr, conn["client"].timeout, ok) IN
         /\ conn' = [conn EXCEPT ![s] = r.conn]
         /\ stream' = [stream EXCEPT ![s] =
                          IF ok THEN [live |-> TRUE, kind |-> kind, done |-> FALSE,
                                      first_request_made |-> FALSE]
                          ELSE NoStream]
         /\ last' = [NoCall EXCEPT !.who = s, !.op = op, !.res = r.res,
                                   !.orig = r.res.err]
    /\ UNCHANGED <<timeout, delivered, recvd, calls, wire, loop, request, workers, riak>>

stream_buckets == \E s \in Streams : Stream_new(s, "bucket", "stream_buckets")
stream_keys == \E s \in Streams : Stream_new(s, "key", "stream_keys")

StreamNext(s, kind) ==
    /\ calls < MaxCalls
    /\ stream[s].live
    /\ stream[s].kind = kind
    /\ \E o \in next(stream[s], conn[s], kind) :
         /\ conn' = [conn EXCEPT ![s] = o.conn]
         /\ stream' = [stream EXCEPT ![s] = o.st]
         /\ delivered' = IF o.res.tag = "Ok"
                         THEN [delivered EXCEPT ![s] = Append(@, o.res.val)]
                         ELSE delivered
         /\ recvd' = IF o.res.tag = "Ok"
                     THEN [recvd EXCEPT ![s] = Append(@, o.frame)]
                     ELSE recvd
         /\ last' = [who |-> s, op |-> "next", res |-> o.res, frame |-> o.frame,
                     nth |-> o.nth, nreq |-> o.nreq,
                     request |-> request_code_of(kind),
                     expected |-> expected_code_of(kind), nexts |-> <<>>,
                     sends |-> o.sends, recvs |-> o.recvs,
                     reconn |-> o.reconn, orig |-> o.orig, gen0 |-> conn[s].gen,
                     wasDone |-> stream[s].done,
                     wasFrm |-> stream[s].first_request_made,
                     outstanding |-> IF o.wrote THEN Outstanding(conn[s]) ELSE 0 - 1]
    /\ calls' = calls + 1
    /\ UNCHANGED <<timeout, wire, loop, request, workers, riak>>

BucketStream_next == \E s \in Streams : StreamNext(s, "bucket")
KeyStream_next == \E s \in Streams : StreamNext(s, "key")

\* the loop of all(): call next(); None ends the loop, an error is returned
\* at once, a batch is appended to the list.  nexts lists what every next()
\* of the loop returned, frames the frame each batch came from; fuel is the
\* number of frames the loop may still wait for.
RECURSIVE all_loop(_, _, _, _, _, _, _)
all_loop(st, cn, kind, list, nexts, frames, fuel) ==
    IF ~st.done /\ fuel = 0 THEN {}
    ELSE UNION {
        LET ns == Append(nexts, [res |-> o.res, frame |-> o.frame]) IN
        IF o.res = None
        THEN {[st |-> o.st, conn |-> o.conn, res |-> Ok(list), list |-> list,
               nexts |-> ns, frames |-> frames]}
        ELSE IF IsErr(o.res)
        THEN {[st |-> o.st, conn |-> o.conn, res |-> o.res, list |-> list,
               nexts |-> ns, frames |-> frames]}
        ELSE all_loop(o.st, o.conn, kind, list \o o.res.val, ns,
                      Append(frames, o.frame), fuel - 1)
        : o \in next(st, cn, kind) }

\* a faulty variant of all: after an error the batches collected so far are
\* returned as the list
all_keeping_partial_list(st, cn, kind, fuel) ==
    { IF IsErr(o.res) THEN [o EXCEPT !.res = Ok(o.list)] ELSE o
      : o \in all_loop(st, cn, kind, <<>>, <<>>, <<>>, fuel) }

\* BucketStream::all / KeyStream::all
all(st, cn, kind, fuel) == all_loop(st, cn, kind, <<>>, <<>>, <<>>, fuel)

\* what a call of all() counts for
Charge(nexts) ==
    LET waited == Cardinality({i \in 1..Len(nexts) : nexts[i].res # None})
    IN IF waited = 0 THEN 1 ELSE waited

StreamAll(s, kind) ==
    /\ calls < MaxCalls
    /\ stream[s].live
    /\ stream[s].kind = kind
    /\ \E o \in all(stream[s], conn[s], kind, MaxCalls - calls) :
         /\ calls' = calls + Charge(o.nexts)
         /\ conn' = [conn EXCEPT ![s] = o.conn]
         /\ stream' = [stream EXCEPT ![s] = o.st]
         /\ delivered' = [delivered EXCEPT ![s] =
                             @ \o [i \in 1..Len(o.frames) |-> o.nexts[i].res.val]]
         /\ recvd' = [recvd EXCEPT ![s] = @ \o o.frames]
         /\ last' = [NoCall EXCEPT !.who = s, !.op = "all", !.res = o.res,
                                   !.nexts = o.nexts, !.gen0 = conn[s].gen,
                                   !.wasDone = stream[s].done,
                                   !.wasFrm = stream[s].first_request_made]
    /\ UNCHANGED <<timeout, wire, loop, request, workers, riak>>

BucketStream_all == \E s \in Streams : StreamAll(s, "bucket")
KeyStream_all == \E s \in Streams : StreamAll(s, "key")

\* Client::list_buckets / Client::list_keys: a stream made for the call, then
\* all() on it; the stream and its connection are dropped on return
ClientList(kind, op) ==
    /\ calls < MaxCalls
    /\ \E ok \in BOOLEAN :
         LET r == RiakConn_new(conn["client"].peer_addr, conn["client"].timeout, ok)
             st == [live |-> TRUE, kind |-> kind, done |-> FALSE,
                    first_request_made |-> FALSE]
         IN IF IsErr(r.res)
            THEN /\ calls' = calls + 1
                 /\ last' = [NoCall EXCEPT !.who = "client", !.op = op, !.res = r.res,
                                           !.gen0 = conn["client"].gen]
            ELSE \E o \in all(st, r.conn, kind, MaxCalls - calls) :
                   /\ calls' = calls + Charge(o.nexts)
                   /\ last' = [NoCall EXCEPT !.who = "client", !.op = op,
                                             !.res = o.res, !.nexts = o.nexts,
                                             !.gen0 = conn["client"].gen]
    /\ UNCHANGED <<conn, timeout, stream, delivered, recvd, wire, loop, request, workers, riak>>

list_buckets == ClientList("bucket", "list_buckets")
list_keys == ClientList("key", "list_keys")

Next ==
    \/ ClientOps
    \/ reconnect \/ set_timeout
    \/ stream_buckets \/ stream_keys
    \/ BucketStream_next \/ KeyStream_next
    \/ BucketStream_all \/ KeyStream_all
    \/ list_buckets \/ list_keys

Spec == Init /\ [][Next]_vars

\* ------------------------------------ a stream read to its end, no failure
\* the state after stream_buckets() or stream_keys() returned a stream
TermInit ==
    /\ \E t \in Timeouts : \E kind \in {"bucket", "key"} :
         /\ conn = [c \in ConnIds |-> Socket(TRUE, 1, Addr, t)]
         /\ timeout = t
         /\ stream = [s \in Streams |->
                        [live |-> TRUE, kind |-> kind, done |-> FALSE,
                         first_request_made |-> FALSE]]
    /\ delivered = [s \in Streams |-> <<>>]
    /\ recvd = [s \in Streams |-> <<>>]
    /\ last = NoCall
    /\ calls = 0
    /\ wire = NoWire
    /\ riak = NoRiak
    /\ loop = [phase |-> "idle", list |-> <<>>, res |-> None]
    /\ request = NoRequest
    /\ workers = NoWorkers

\* the outcomes of next() when no call fails and the server sends its done
\* frame after MaxFrames other frames at the latest
FailureFree(s) ==
    { o \in next(stream[s], conn[s], stream[s].kind) :
        /\ ~IsErr(o.res)
        /\ (o.frame # NoFrame /\ ~o.frame.done) => Len(recvd[s]) < MaxFrames }

\* what a call of next() that returned o leaves behind
AfterNext(s, o) ==
    /\ conn' = [conn EXCEPT ![s] = o.conn]
    /\ stream' = [stream EXCEPT ![s] = o.st]
    /\ delivered' = IF o.res.tag = "Ok"
                    THEN [delivered EXCEPT ![s] = Append(@, o.res.val)]
                    ELSE delivered
    /\ recvd' = IF o.res.tag = "Ok"
                THEN [recvd EXCEPT ![s] = Append(@, o.frame)]
                ELSE recvd
    /\ last' = [NoCall EXCEPT
                  !.who = s, !.op = "next", !.res = o.res, !.frame = o.frame,
                  !.nth = o.nth, !.nreq = o.nreq,
                  !.request = request_code_of(stream[s].kind),
                  !.expected = expected_code_of(stream[s].kind),
                  !.sends = o.sends, !.recvs = o.recvs, !.gen0 = conn[s].gen,
                  !.wasDone = stream[s].done,
                  !.wasFrm = stream[s].first_request_made]

\* the caller calls next()
caller_next ==
    /\ loop.phase = "idle"
    /\ \E s \in Streams : \E o \in FailureFree(s) : AfterNext(s, o)
    /\ UNCHANGED <<timeout, calls, wire, riak, loop, request, workers>>

\* the caller calls all(): the list is empty
all_begin ==
    /\ loop.phase = "idle"
    /\ loop' = [phase |-> "all", list |-> <<>>, res |-> None]
    /\ UNCHANGED <<conn, timeout, stream, delivered, recvd, last, calls, wire, riak, request, workers>>

\* one turn of the loop of all(): next() is called; None ends the loop and
\* all() returns the list, a batch is appended to the list
all_turn ==
    /\ loop.phase = "all"
    /\ \E s \in Streams : \E o \in FailureFree(s) :
         /\ AfterNext(s, o)
         /\ loop' = IF o.res = None
                    THEN [phase |-> "idle", list |-> loop.list, res |-> Ok(loop.list)]
                    ELSE [loop EXCEPT !.list = @ \o o.res.val]
    /\ UNCHANGED <<timeout, calls, wire, riak, request, workers>>

TermNext == caller_next \/ all_begin \/ all_turn

\* the caller goes on calling and the loop of all() goes on turning
TermSpec == TermInit /\ [][TermNext]_vars /\ WF_vars(TermNext)

\* --------------------------------------------- one dialogue, byte by byte
\* the operations of Client whose dialogue is followed byte by byte
WireOps == {"ping", "server_info", "set_bucket_properties", "fetch_object",
            "delete_object"}
wire_request_code(op) ==
    CASE op = "ping" -> "RpbPingReq"
      [] op = "server_info" -> "RpbGetServerInfoReq"
      [] op = "set_bucket_properties" -> "RpbSetBucketReq"
      [] op = "fetch_object" -> "RpbGetReq"
      [] op = "delete_object" -> "RpbDelReq"
\* ping sends ping_data = vec![], server_info sends &vec![]; the other
\* operations send the bytes write_to_bytes made of their request
ping_data == <<>>
wire_request_payloads(op) ==
    IF op \in {"ping", "server_info"} THEN {ping_data} ELSE Payloads
\* Ok(_) => Ok(()): the operations that do not look at the reply payload
discards_reply(op) == op \in {"ping", "set_bucket_properties", "delete_object"}

NewWire(op, payload) ==
    [phase |-> "new", op |-> op, code |-> wire_request_code(op),
     expected |-> RespOf(wire_request_code(op)), payload |-> payload,
     out |-> <<>>, rcode |-> "none", rpayload |-> <<>>, more |-> <<>>,
     inb |-> <<>>, got |-> None, res |-> None, unread |-> <<>>]

\* the state before one operation of a Client just made
FrameInit ==
    /\ ClientInit
    /\ riak = NoRiak
    /\ loop = NoLoop
    /\ request = NoRequest
    /\ workers = NoWorkers
    /\ \E op \in WireOps : \E payload \in wire_request_payloads(op) :
         wire = NewWire(op, payload)

\* RiakConn::send: the request frame is written
wire_send ==
    /\ wire.phase = "new"
    /\ wire' = [wire EXCEPT !.phase = "sent",
                            !.out = frame_bytes(code_byte(wire.code), wire.payload)]
    /\ UNCHANGED <<conn, timeout, stream, delivered, recvd, last, calls, riak, loop, request, workers>>

\* the server writes its reply frame, of the expected code, of another code
\* or an RpbErrorResp, and may write a further frame behind it
wire_reply ==
    /\ wire.phase = "sent"
    /\ \E rcode \in {wire.expected, OtherCode(wire.code), "RpbErrorResp"} :
       \E rpayload \in (IF rcode = "RpbErrorResp"
                         THEN {error_resp_bytes(c, ErrMsg) : c \in {42}}
                         ELSE Payloads) :
       \E more \in {<<>>, frame_bytes(code_byte("RpbPingResp"), <<>>)} :
         wire' = [wire EXCEPT !.phase = "replied", !.rcode = rcode,
                              !.rpayload = rpayload, !.more = more,
                              !.inb = frame_bytes(code_byte(rcode), rpayload) \o more]
    /\ UNCHANGED <<conn, timeout, stream, delivered, recvd, last, calls, riak, loop, request, workers>>

\* RiakConn::receive and the return of the operation
wire_receive ==
    /\ wire.phase = "replied"
    /\ LET r == read_frame(wire.inb, code_byte(wire.expected)) IN
       wire' = [wire EXCEPT !.phase = "received", !.got = r.res, !.unread = r.rest,
                            !.res = IF IsErr(r.res) THEN r.res
                                    ELSE IF discards_reply(wire.op) THEN Ok(<<>>)
                                    ELSE r.res]
    /\ UNCHANGED <<conn, timeout, stream, delivered, recvd, last, calls, riak, loop, request, workers>>

FrameNext == wire_send \/ wire_reply \/ wire_receive

FrameSpec == FrameInit /\ [][FrameNext]_vars

\* ------------------------------------------- a node that stores objects
\* the values stored under the one bucket and key of the model
Values == Names
\* an optional field: not set, or set to a value
Unset(default) == [has |-> FALSE, val |-> default]
Some(val) == [has |-> TRUE, val |-> val]
OptU32 == {Unset(0), Some(2)}
OptBool == {Unset(FALSE), Some(TRUE)}
OptBytes == {Unset(<<>>), Some(<<116>>)}

\* ObjectContent::new(value) and RpbContent::new() with the value set: no
\* optional field is set
ObjectContent_new(value) ==
    [value |-> value, content_type |-> Unset(<<>>), charset |-> Unset(<<>>),
     content_encoding |-> Unset(<<>>), vtag |-> Unset(<<>>),
     last_mod |-> Unset(0), last_mod_usecs |-> Unset(0), deleted |-> Unset(FALSE)]
\* RpbContent::new(): the fields of an ObjectContent, none set, and the
\* repeated fields an ObjectContent does not have
RpbContent_new ==
    [value |-> <<>>, content_type |-> Unset(<<>>), charset |-> Unset(<<>>),
     content_encoding |-> Unset(<<>>), vtag |-> Unset(<<>>),
     last_mod |-> Unset(0), last_mod_usecs |-> Unset(0), deleted |-> Unset(FALSE),
     links |-> <<>>, usermeta |-> <<>>, indexes |-> <<>>]
\* the vtag a node gives to an object it stores
VTag == <<118>>
\* an ObjectContent or an RpbContent that has a value and, at most, a vtag
Content(value, vtag) ==
    [ObjectContent_new(value) EXCEPT !.vtag = IF vtag THEN Some(VTag) ELSE @]
\* the values of the type ObjectContent
ObjectContents ==
    [value : Values, content_type : OptBytes, charset : OptBytes,
     content_encoding : OptBytes, vtag : OptBytes,
     last_mod : OptU32, last_mod_usecs : OptU32, deleted : OptBool]

\* a faulty variant of object_content_to_rpb_content: the charset is written
\* as the content_encoding
object_content_to_rpb_content_charset_as_encoding(object_content) ==
    LET set(field, rpb_content) ==
            IF object_content[field].has
            THEN [rpb_content EXCEPT ![IF field = "charset" THEN "content_encoding"
                                       ELSE field] = Some(object_content[field].val)]
            ELSE rpb_content
    IN set("deleted", set("last_mod_usecs", set("last_mod", set("vtag",
       set("content_encoding", set("charset", set("content_type",
       [RpbContent_new EXCEPT !.value = object_content.value])))))))

\* object_content_to_rpb_content: the value, and every optional field that
\* is Some
object_content_to_rpb_content(object_content) ==
    LET set(field, rpb_content) ==
            IF object_content[field].has
            THEN [rpb_content EXCEPT ![field] = Some(object_content[field].val)]
            ELSE rpb_content
    IN set("deleted", set("last_mod_usecs", set("last_mod", set("vtag",
       set("content_encoding", set("charset", set("content_type",
       [RpbContent_new EXCEPT !.value = object_content.value])))))))
\* rpb_content_to_object_content: the value, and the content_type, the
\* charset and the content_encoding when the record has them; no other field
rpb_content_to_object_content(rpb_content) ==
    LET set(field, object_content) ==
            IF rpb_content[field].has
            THEN [object_content EXCEPT ![field] = Some(rpb_content[field].val)]
            ELSE object_content
    IN set("content_encoding", set("charset", set("content_type",
       ObjectContent_new(rpb_content.value))))
\* rpb_get_resp_to_fetch_object_resp: every RpbContent converted, in order
rpb_get_resp_to_fetch_object_resp(content) ==
    [i \in 1..Len(content) |-> rpb_content_to_object_content(content[i])]

\* a faulty variant of fetch_object_resp: a reply without content is returned
\* as an error
fetch_object_resp_notfound_error(payload) ==
    IF payload = <<>> THEN Err(ServerError_new(0, <<>>))
    ELSE Ok(rpb_get_resp_to_fetch_object_resp(payload))

\* fetch_object after the exchange: the reply parsed and converted, whatever
\* the number of contents in it
fetch_object_resp(payload) == Ok(rpb_get_resp_to_fetch_object_resp(payload))

\* BucketProps: the backend and the n_val of the properties, each set or not
BucketProps_new == [has_backend |-> FALSE, backend |-> <<>>, has_n_val |-> FALSE, n_val |-> 0]
set_backend(bucket_props, backend) ==
    [bucket_props EXCEPT !.has_backend = TRUE, !.backend = backend]
set_n_val(bucket_props, n_val) ==
    [bucket_props EXCEPT !.has_n_val = TRUE, !.n_val = n_val]
\* the properties the model sets
PropsSet ==
    {set_backend(BucketProps_new, <<97>>),
     set_n_val(set_backend(BucketProps_new, <<255>>), 5)}

\* BucketProps::write_to_bytes: the request carries the name and a copy of
\* the properties
BucketProps_write_to_bytes(bucket_props, name) ==
    [name |-> name, props |-> bucket_props]
\* get_bucket_properties after the exchange: take_props of the reply, made
\* the BucketProps by set_props
bucket_props_resp(payload) == Ok(payload[1])

\* get_yokozuna_schema after the exchange: take_schema of the reply, then
\* take_content
yokozuna_schema_resp(payload) == Ok(payload[1].content)
\* the one schema name of the model
SchemaName == <<115>>

\* what an operation returns when its exchange succeeded and the reply parsed
typed_reply(op, payload) ==
    CASE op = "fetch_object" -> fetch_object_resp(payload)
      [] op \in {"get_bucket_properties", "get_bucket_type_properties"} ->
           bucket_props_resp(payload)
      [] op = "get_yokozuna_schema" -> yokozuna_schema_resp(payload)
      [] OTHER -> Ok(<<>>)

\* the properties a bucket or a bucket type has on the node before any is set
DefaultProps == set_n_val(set_backend(BucketProps_new, <<98>>), 3)
\* the properties of the node once a request set some: what the request sets
\* replaces what the node had, the rest stays
RiakNode_set_props(old, new) ==
    [has_backend |-> old.has_backend \/ new.has_backend,
     backend |-> IF new.has_backend THEN new.backend ELSE old.backend,
     has_n_val |-> old.has_n_val \/ new.has_n_val,
     n_val |-> IF new.has_n_val THEN new.n_val ELSE old.n_val]

\* a node that stores nothing: no object under the bucket and key, the
\* default properties, an empty schema
EmptyStore ==
    [obj |-> <<>>, props |-> DefaultProps, type_props |-> DefaultProps,
     schema |-> <<>>]

\* what the node does with a request: a put replaces what is stored and is
\* given a vtag, a delete removes it, a get is answered with what is stored;
\* the properties of the bucket, those of the bucket type and the schema are
\* set and returned the same way
RiakNode_serve(store, code, arg) ==
    CASE code = "RpbPutReq" ->
           [store |-> [store EXCEPT !.obj = <<Content(arg.value, TRUE)>>],
            frame |-> DataFrame("RpbPutResp", <<>>, FALSE)]
      [] code = "RpbDelReq" ->
           [store |-> [store EXCEPT !.obj = <<>>],
            frame |-> DataFrame("RpbDelResp", <<>>, FALSE)]
      [] code = "RpbGetReq" ->
           [store |-> store, frame |-> DataFrame("RpbGetResp", store.obj, FALSE)]
      [] code = "RpbSetBucketReq" ->
           [store |-> [store EXCEPT !.props = RiakNode_set_props(@, arg.props)],
            frame |-> DataFrame("RpbSetBucketResp", <<>>, FALSE)]
      [] code = "RpbGetBucketReq" ->
           [store |-> store,
            frame |-> DataFrame("RpbGetBucketResp", <<store.props>>, FALSE)]
      [] code = "RpbSetBucketTypeReq" ->
           [store |-> [store EXCEPT !.type_props = RiakNode_set_props(@, arg.props)],
            frame |-> DataFrame("RpbSetBucketResp", <<>>, FALSE)]
      [] code = "RpbGetBucketTypeReq" ->
           [store |-> store,
            frame |-> DataFrame("RpbGetBucketResp", <<store.type_props>>, FALSE)]
      [] code = "RpbYokozunaSchemaPutReq" ->
           [store |-> [store EXCEPT !.schema = arg.content],
            frame |-> DataFrame("RpbPutResp", <<>>, FALSE)]
      [] code = "RpbYokozunaSchemaGetReq" ->
           [store |-> store,
            frame |-> DataFrame("RpbYokozunaSchemaGetResp",
                                <<[name |-> arg.name, content |-> store.schema]>>,
                                FALSE)]

\* a call on the Client: the operation, its argument and what it returned
NoneYet == [op |-> "none", arg |-> <<>>, res |-> None]

\* the state of a Client just made and of a node that stores nothing
ObjInit ==
    /\ ClientInit
    /\ wire = NoWire
    /\ riak = [store |-> EmptyStore, transit |-> <<>>, cur |-> NoneYet, prev |-> NoneYet]
    /\ loop = NoLoop
    /\ request = NoRequest
    /\ workers = NoWorkers

\* one operation of Client against the node: the node serves the request
\* when it is written; of the replies on their way, the oldest k are on the
\* socket when the call reads.  The socket stays open.
NodeStep(op, request_code, expected_code, parses, arg) ==
    /\ calls < MaxObjCalls
    /\ LET cn == conn["client"]
           served == RiakNode_serve(riak.store, request_code, arg)
           transit == Append(riak.transit, [served.frame EXCEPT !.re = cn.nreq + 1])
       IN \E k \in 0..Len(transit) :
            LET arrived == [i \in 1..k |-> [transit[i] EXCEPT !.seq = cn.nsent + i]]
                cn0 == [cn EXCEPT !.reps = @ \o arrived, !.nsent = @ + k]
            IN /\ (cn0.reps = <<>>) => (Len(transit) <= MaxLate)
               /\ \E o \in Client_call(cn0, request_code, expected_code, parses) :
                    LET res == IF o.res.tag = "Ok" /\ parses
                               THEN typed_reply(op, o.res.val)
                               ELSE o.res
                    IN /\ o.conn.alive
                       /\ (cn0.reps = <<>>) => (o.frame = NoFrame)
                       /\ conn' = [conn EXCEPT !["client"] =
                                       [o.conn EXCEPT !.pending = <<>>]]
                       /\ riak' = [store |-> served.store,
                                   transit |-> SubSeq(transit, k + 1, Len(transit)),
                                   cur |-> [op |-> op, arg |-> arg, res |-> res],
                                   prev |-> riak.cur]
                       /\ last' = [NoCall EXCEPT
                                     !.who = "client", !.op = op, !.res = res,
                                     !.frame = o.frame, !.nth = o.nth,
                                     !.nreq = o.nreq, !.request = request_code,
                                     !.expected = expected_code,
                                     !.sends = o.sends, !.recvs = o.recvs,
                                     !.orig = o.orig, !.gen0 = cn.gen]
    /\ calls' = calls + 1
    /\ UNCHANGED <<timeout, stream, delivered, recvd, wire, loop, request, workers>>

\* Client::store_object of a value under the bucket and key
store_object_to_node ==
    \E v \in Values :
      NodeStep("store_object", "RpbPutReq", "RpbPutResp", FALSE,
               object_content_to_rpb_content(Content(v, FALSE)))
\* Client::fetch_object of the bucket and key
fetch_object_from_node ==
    NodeStep("fetch_object", "RpbGetReq", "RpbGetResp", TRUE, Content(<<>>, FALSE))
\* Client::delete_object of the bucket and key
delete_object_from_node ==
    NodeStep("delete_object", "RpbDelReq", "RpbDelResp", FALSE, Content(<<>>, FALSE))

ObjNext == store_object_to_node \/ fetch_object_from_node \/ delete_object_from_node

ObjSpec == ObjInit /\ [][ObjNext]_vars

\* Client::set_bucket_properties and Client::get_bucket_properties of the
\* bucket, set_bucket_type_properties and get_bucket_type_properties of the
\* bucket type
set_bucket_properties_on_node ==
    \E p \in PropsSet :
      NodeStep("set_bucket_properties", "RpbSetBucketReq", "RpbSetBucketResp", FALSE,
               BucketProps_write_to_bytes(p, "bucket"))
get_bucket_properties_from_node ==
    NodeStep("get_bucket_properties", "RpbGetBucketReq", "RpbGetBucketResp", TRUE,
             [name |-> "bucket", props |-> BucketProps_new])
set_bucket_type_properties_on_node ==
    \E p \in PropsSet :
      NodeStep("set_bucket_type_properties", "RpbSetBucketTypeReq", "RpbSetBucketResp",
               FALSE, BucketProps_write_to_bytes(p, "type"))
get_bucket_type_properties_from_node ==
    NodeStep("get_bucket_type_properties", "RpbGetBucketTypeReq", "RpbGetBucketResp",
             TRUE, [name |-> "type", props |-> BucketProps_new])

PropsNext ==
    \/ set_bucket_properties_on_node \/ get_bucket_properties_from_node
    \/ set_bucket_type_properties_on_node \/ get_bucket_type_properties_from_node

PropsSpec == ObjInit /\ [][PropsNext]_vars

\* Client::set_yokozuna_schema(name, content) and get_yokozuna_schema(name)
set_yokozuna_schema_on_node ==
    \E content \in Values :
      NodeStep("set_yokozuna_schema", "RpbYokozunaSchemaPutReq", "RpbPutResp", FALSE,
               [name |-> SchemaName, content |-> content])
get_yokozuna_schema_from_node ==
    NodeStep("get_yokozuna_schema", "RpbYokozunaSchemaGetReq",
             "RpbYokozunaSchemaGetResp", TRUE, [name |-> SchemaName, content |-> <<>>])

SchemaNext == set_yokozuna_schema_on_node \/ get_yokozuna_schema_from_node

SchemaSpec == ObjInit /\ [][SchemaNext]_vars

\* --------------------------------- requests and their protobuf records
\* the optional fields of a FetchObjectReq
OptionalFields ==
    {"r", "pr", "basic_quorum", "notfound_ok", "if_modified", "head",
     "deletedvclock", "timeout", "sloppy_quorum", "n_val", "bucket_type"}
\* the values of the type FetchObjectReq; FetchObjectReq::new makes those
\* with no optional field set
FetchObjectReqs ==
    [bucket : Names, key : Names,
     r : OptU32, pr : OptU32, basic_quorum : OptBool, notfound_ok : OptBool,
     if_modified : OptBool, head : OptBool, deletedvclock : OptBool,
     timeout : OptU32, sloppy_quorum : OptBool, n_val : OptU32,
     bucket_type : OptBytes]

\* RpbGetReq::new(): no field is set
RpbGetReq_new ==
    [bucket |-> Unset(<<>>), key |-> Unset(<<>>),
     r |-> Unset(0), pr |-> Unset(0), basic_quorum |-> Unset(FALSE),
     notfound_ok |-> Unset(FALSE), if_modified |-> Unset(FALSE),
     head |-> Unset(FALSE), deletedvclock |-> Unset(FALSE),
     timeout |-> Unset(0), sloppy_quorum |-> Unset(FALSE), n_val |-> Unset(0),
     bucket_type |-> Unset(<<>>)]
\* fetch_object_req_to_rpb_get_req: the bucket and the key are set
fetch_object_req_to_rpb_get_req(fetch_object_req) ==
    [RpbGetReq_new EXCEPT !.bucket = Some(fetch_object_req.bucket),
                          !.key = Some(fetch_object_req.key)]

\* the values of the type StoreObjectReq, of which the model keeps the
\* bucket, the content, the key, return_body and return_head
StoreObjectReqs ==
    [bucket : {<<97>>}, content : {Content(v, FALSE) : v \in Values},
     key : OptBytes, return_body : OptBool, return_head : OptBool]
\* store_object_req_to_rpb_put_req: the bucket, the content converted, and
\* every optional field that is set
store_object_req_to_rpb_put_req(store_object_req) ==
    [bucket |-> Some(store_object_req.bucket),
     content |-> object_content_to_rpb_content(store_object_req.content),
     key |-> store_object_req.key,
     return_body |-> store_object_req.return_body,
     return_head |-> store_object_req.return_head]

\* the frames a node may write in answer to an RpbPutReq: an RpbPutResp with
\* the content when return_body or return_head asks for it and empty
\* otherwise, an RpbPutResp that does not parse, an error, another code
PutReplies(rpb_put_req) ==
    {DataFrame("RpbPutResp",
               IF rpb_put_req.return_body.has \/ rpb_put_req.return_head.has
               THEN <<Content(rpb_put_req.content.value, TRUE)>> ELSE <<>>,
               FALSE),
     GarbageFrame("RpbPutResp"), ErrorFrame(42, ErrMsg), GarbageFrame("RpbPingResp")}

\* a faulty variant of store_object_result: the reply is parsed and its
\* content returned
store_object_result_parsing(frame) ==
    IF frame.ok THEN Ok(frame.names) ELSE Err(ProtobufError("parse"))

\* store_object after a successful exchange: Ok(_) => Ok(())
store_object_result(frame) == Ok(<<>>)

\* the state of a Client just made and of a request the caller built
ReqInit ==
    /\ ClientInit
    /\ wire = NoWire
    /\ riak = NoRiak
    /\ loop = NoLoop
    /\ workers = NoWorkers
    /\ \/ \E r \in FetchObjectReqs :
            request = [phase |-> "built", op |-> "fetch_object", req |-> r,
                       rpb |-> <<>>, frame |-> NoFrame, res |-> None]
       \/ \E r \in StoreObjectReqs :
            request = [phase |-> "built", op |-> "store_object", req |-> r,
                       rpb |-> <<>>, frame |-> NoFrame, res |-> None]

\* FetchObjectReq::write_to_bytes: the record fetch_object writes
FetchObjectReq_write_to_bytes ==
    /\ request.phase = "built"
    /\ request.op = "fetch_object"
    /\ request' = [request EXCEPT
                     !.phase = "written",
                     !.rpb = fetch_object_req_to_rpb_get_req(request.req)]
    /\ UNCHANGED <<conn, timeout, stream, delivered, recvd, last, calls, wire, riak, loop, workers>>

\* Client::store_object(req): the request converted and written, the reply
\* of the node read, the result of the exchange returned
store_object_of_request ==
    /\ request.phase = "built"
    /\ request.op = "store_object"
    /\ LET rpb == store_object_req_to_rpb_put_req(request.req) IN
       \E f \in PutReplies(rpb) :
         LET cn0 == [conn["client"] EXCEPT !.reps = <<f>>, !.nsent = @ + 1] IN
         \E x \in exchange(cn0, "RpbPutReq", "RpbPutResp") :
           /\ conn' = [conn EXCEPT !["client"] = [x.conn EXCEPT !.pending = <<>>]]
           /\ request' = [request EXCEPT
                            !.phase = "returned", !.rpb = rpb, !.frame = x.frame,
                            !.res = IF IsErr(x.res) THEN x.res
                                    ELSE store_object_result(x.frame)]
    /\ UNCHANGED <<timeout, stream, delivered, recvd, last, calls, wire, riak, loop, workers>>

ReqNext == FetchObjectReq_write_to_bytes \/ store_object_of_request

ReqSpec == ReqInit /\ [][ReqNext]_vars

\* ----------------------------------------- two workers at the same time
Workers == {1, 2}
\* the request codes of the operations the workers call
WorkerOps == {"RpbPingReq", "RpbGetReq"}

\* a faulty variant of Client_new_connection: every Client is given the one
\* connection of the process
Client_new_connection_shared(w) == 1

\* Client::new: the Client made for worker w has a connection of its own
Client_new_connection(w) == w

\* the workers either hold one Client each, or are handed the same Client
\* as if nothing kept an operation from starting while another one runs
WorkersInit ==
    /\ ClientInit
    /\ wire = NoWire
    /\ riak = NoRiak
    /\ loop = NoLoop
    /\ request = NoRequest
    /\ \E shared \in BOOLEAN :
         workers = [shared |-> shared,
                    sock_of |-> [w \in Workers |->
                                   IF shared THEN 1 ELSE Client_new_connection(w)],
                    socks |-> [c \in Workers |-> Socket(TRUE, 1, Addr, DEFAULT_TIMEOUT)],
                    owner |-> [c \in Workers |-> <<>>],
                    pc |-> [w \in Workers |-> "idle"],
                    code |-> [w \in Workers |-> "none"],
                    got |-> [w \in Workers |-> NoFrame],
                    by |-> [w \in Workers |-> 0],
                    ops |-> [w \in Workers |-> 0]]

\* the first half of exchange in an operation of worker w: send
worker_send ==
    \E w \in Workers : \E code \in WorkerOps :
      LET c == workers.sock_of[w]
          s == send(workers.socks[c], code)
      IN /\ workers.pc[w] = "idle"
         /\ workers.ops[w] < MaxWorkerOps
         /\ workers' = [workers EXCEPT !.socks[c] = s.conn,
                                       !.owner[c] = Append(@, w),
                                       !.pc[w] = "sent",
                                       !.code[w] = code,
                                       !.ops[w] = @ + 1]
         /\ UNCHANGED <<conn, timeout, stream, delivered, recvd, last, calls, wire, riak,
                        loop, request>>

\* the node answers the oldest request on a socket
node_reply ==
    \E c \in Workers :
      LET cn == workers.socks[c]
          p == Head(cn.pending)
          f == [DataFrame(RespOf(p.code), <<>>, FALSE) EXCEPT
                  !.re = p.id, !.seq = cn.nsent + 1]
      IN /\ cn.pending # <<>>
         /\ workers' = [workers EXCEPT
                          !.socks[c] = [cn EXCEPT !.reps = Append(@, f),
                                                  !.nsent = @ + 1,
                                                  !.pending = Tail(@)]]
         /\ UNCHANGED <<conn, timeout, stream, delivered, recvd, last, calls, wire, riak,
                        loop, request>>

\* the second half of exchange in the operation of worker w: receive reads
\* the next frame on the socket; by is the worker whose request it answers
worker_receive ==
    \E w \in Workers :
      LET c == workers.sock_of[w]
          cn == workers.socks[c]
          r == receive(cn, RespOf(workers.code[w]))
      IN /\ workers.pc[w] = "sent"
         /\ cn.reps # <<>>
         /\ workers' = [workers EXCEPT !.socks[c] = r.conn,
                                       !.pc[w] = "idle",
                                       !.got[w] = r.frame,
                                       !.by[w] = workers.owner[c][r.frame.re]]
         /\ UNCHANGED <<conn, timeout, stream, delivered, recvd, last, calls, wire, riak,
                        loop, request>>

WorkersNext == worker_send \/ node_reply \/ worker_receive

WorkersSpec == WorkersInit /\ [][WorkersNext]_vars

\* -------------------- a caller that goes on calling, whatever was returned
\* write_to_bytes of the request returned an error: the operation returns
\* ProtobufError at once, the connection and the flags of a stream are not
\* touched (stream.rs 97-100, lib.rs 289-292, 590-593)
write_to_bytes_failed_reconnecting(st, cn) ==
    [st |-> st, conn |-> RiakConn_reconnect(cn, TRUE).conn,
     res |-> Err(ProtobufError("write_to_bytes")),
     frame |-> NoFrame, nth |-> 0, nreq |-> 0, sends |-> 0, recvs |-> 0,
     wrote |-> FALSE, reconn |-> "ok", orig |-> ProtobufError("write_to_bytes")]

write_to_bytes_failed(st, cn) ==
    [st |-> st, conn |-> cn, res |-> Err(ProtobufError("write_to_bytes")),
     frame |-> NoFrame, nth |-> 0, nreq |-> 0, sends |-> 0, recvs |-> 0,
     wrote |-> FALSE, reconn |-> "none", orig |-> ProtobufError("write_to_bytes")]

\* a faulty variant of next_of_bytes: first_request_made is set as soon as
\* the request is built, whatever the exchange returns
next_of_bytes_marking_early(st, cn, kind, serialized) ==
    IF st.done \/ st.first_request_made THEN next(st, cn, kind)
    ELSE IF ~serialized THEN {write_to_bytes_failed(st, cn)}
    ELSE { IF IsErr(o.res) THEN [o EXCEPT !.st.first_request_made = TRUE] ELSE o
           : o \in next_first(st, cn, kind) }

\* a faulty variant of next_of_bytes: a stream that is done forgets that its
\* request was made
next_of_bytes_forgetting(st, cn, kind, serialized) ==
    IF st.done \/ st.first_request_made
    THEN { IF o.st.done THEN [o EXCEPT !.st.first_request_made = FALSE] ELSE o
           : o \in next(st, cn, kind) }
    ELSE IF ~serialized THEN {write_to_bytes_failed(st, cn)}
    ELSE next_first(st, cn, kind)

\* a faulty variant of next_of_bytes: after the first request a call whose
\* connection has no reply waiting sends the request again
next_of_bytes_asking_again(st, cn, kind, serialized) ==
    IF st.done THEN next(st, cn, kind)
    ELSE IF st.first_request_made /\ Outstanding(cn) > 0 THEN next(st, cn, kind)
    ELSE IF ~serialized THEN {write_to_bytes_failed(st, cn)}
    ELSE next_first(st, cn, kind)

\* BucketStream::next / KeyStream::next with the outcome of write_to_bytes:
\* the request is built and serialized only when the stream is not done and
\* its first request was not made
next_of_bytes(st, cn, kind, serialized) ==
    IF st.done \/ st.first_request_made THEN next(st, cn, kind)
    ELSE IF ~serialized THEN {write_to_bytes_failed(st, cn)}
    ELSE next_first(st, cn, kind)

\* an operation of Client that serializes a request, then does as the others
Client_call_of_bytes(cn, request_code, expected_code, parses, serialized) ==
    IF ~serialized THEN {write_to_bytes_failed(NoStream, cn)}
    ELSE Client_call(cn, request_code, expected_code, parses)

\* the state after Client::new_with_timeout and stream_buckets() or
\* stream_keys()
CallerInit ==
    /\ \E t \in Timeouts : \E kind \in {"bucket", "key"} :
         /\ conn = [c \in ConnIds |-> Socket(TRUE, 1, Addr, t)]
         /\ timeout = t
         /\ stream = [s \in Streams |->
                        [live |-> TRUE, kind |-> kind, done |-> FALSE,
                         first_request_made |-> FALSE]]
    /\ delivered = [s \in Streams |-> <<>>]
    /\ recvd = [s \in Streams |-> <<>>]
    /\ last = NoCall
    /\ calls = 0
    /\ wire = NoWire
    /\ riak = NoRiak
    /\ loop = NoLoop
    /\ request = NoRequest
    /\ workers = NoWorkers

\* the caller calls next() on the stream
next_of_caller ==
    /\ calls < MaxNexts
    /\ \E s \in Streams : \E serialized \in BOOLEAN :
       \E o \in next_of_bytes(stream[s], conn[s], stream[s].kind, serialized) :
         /\ conn' = [conn EXCEPT ![s] = o.conn]
         /\ stream' = [stream EXCEPT ![s] = o.st]
         /\ delivered' = IF o.res.tag = "Ok"
                         THEN [delivered EXCEPT ![s] = Append(@, o.res.val)]
                         ELSE delivered
         /\ recvd' = IF o.res.tag = "Ok"
                     THEN [recvd EXCEPT ![s] = Append(@, o.frame)]
                     ELSE recvd
         /\ last' = [who |-> s, op |-> "next", res |-> o.res, frame |-> o.frame,
                     nth |-> o.nth, nreq |-> o.nreq,
                     request |-> request_code_of(stream[s].kind),
                     expected |-> expected_code_of(stream[s].kind), nexts |-> <<>>,
                     sends |-> o.sends, recvs |-> o.recvs,
                     reconn |-> o.reconn, orig |-> o.orig, gen0 |-> conn[s].gen,
                     wasDone |-> stream[s].done,
                     wasFrm |-> stream[s].first_request_made,
                     outstanding |-> Outstanding(conn[s])]
    /\ calls' = calls + 1
    /\ UNCHANGED <<timeout, wire, riak, loop, request, workers>>

\* the caller calls an operation of Client that serializes a request
ClientStep_of_bytes(op, request_code, expected_code, parses) ==
    /\ calls < MaxNexts
    /\ \E serialized \in BOOLEAN :
       \E o \in Client_call_of_bytes(conn["client"], request_code, expected_code,
                                     parses, serialized) :
         /\ conn' = [conn EXCEPT !["client"] = o.conn]
         /\ last' = [who |-> "client", op |-> op, res |-> o.res, frame |-> o.frame,
                     nth |-> o.nth, nreq |-> o.nreq, request |-> request_code,
                     expected |-> expected_code, nexts |-> <<>>,
                     sends |-> o.sends, recvs |-> o.recvs,
                     reconn |-> o.reconn, orig |-> o.orig, gen0 |-> conn["client"].gen,
                     wasDone |-> FALSE, wasFrm |-> FALSE,
                     outstanding |-> Outstanding(conn["client"])]
    /\ calls' = calls + 1
    /\ UNCHANGED <<timeout, stream, delivered, recvd, wire, riak, loop, request, workers>>

set_bucket_properties_of_bytes ==
    ClientStep_of_bytes("set_bucket_properties", "RpbSetBucketReq",
                        "RpbSetBucketResp", FALSE)
fetch_object_of_bytes ==
    ClientStep_of_bytes("fetch_object", "RpbGetReq", "RpbGetResp", TRUE)

CallerNext ==
    next_of_caller \/ set_bucket_properties_of_bytes \/ fetch_object_of_bytes

CallerSpec == CallerInit /\ [][CallerNext]_vars

\* ----------------------------- a reply that is cut short or does not parse
\* the operations whose reply is followed from the bytes to the result:
\* two operations of Client that parse the reply payload, and the first
\* next() of a BucketStream
ReadOps == {"server_info", "fetch_object", "next"}
read_request_code(op) ==
    CASE op = "server_info" -> "RpbGetServerInfoReq"
      [] op = "fetch_object" -> "RpbGetReq"
      [] op = "next" -> "RpbListBucketsReq"
\* the connection the operation works on
read_conn(op) == IF op = "next" THEN "stream" ELSE "client"

\* a payload whose first byte is 255 is no protobuf record: the tag it
\* begins is a varint that never ends or one with the wire type 7; the
\* model takes every other payload for a record
is_record(payload) == payload = <<>> \/ payload[1] # 255

\* a faulty variant of parse_from_bytes: a payload that is no record is
\* reported as an IoError
parse_from_bytes_io_error(payload) ==
    IF is_record(payload) THEN Ok(payload) ELSE Err(IoError("parse"))

\* parse_from_bytes, wrapped as the operations wrap it:
\* Err(err) => Err(RiakErr::ProtobufError(err))
parse_from_bytes(payload) ==
    IF is_record(payload) THEN Ok(payload) ELSE Err(ProtobufError("parse"))

NewRead(op, payload) ==
    [phase |-> "new", op |-> op, code |-> read_request_code(op),
     expected |-> RespOf(read_request_code(op)), payload |-> payload,
     out |-> <<>>, rcode |-> "none", rpayload |-> <<>>, whole |-> <<>>,
     inb |-> <<>>, got |-> None, res |-> None, reconn |-> "none"]

\* the state before the operation: a Client and a BucketStream just made
ReadInit ==
    /\ \E t \in Timeouts :
         /\ conn = [c \in ConnIds |-> Socket(TRUE, 1, Addr, t)]
         /\ timeout = t
    /\ stream = [s \in Streams |->
                   [live |-> TRUE, kind |-> "bucket", done |-> FALSE,
                    first_request_made |-> FALSE]]
    /\ delivered = [s \in Streams |-> <<>>]
    /\ recvd = [s \in Streams |-> <<>>]
    /\ last = NoCall
    /\ calls = 0
    /\ riak = NoRiak
    /\ loop = NoLoop
    /\ request = NoRequest
    /\ workers = NoWorkers
    /\ \E op \in ReadOps :
       \E payload \in (IF op = "server_info" THEN {<<>>} ELSE Payloads) :
         wire = NewRead(op, payload)

\* RiakConn::send: the request frame is written
read_send ==
    /\ wire.phase = "new"
    /\ wire' = [wire EXCEPT !.phase = "sent",
                            !.out = frame_bytes(code_byte(wire.code), wire.payload)]
    /\ UNCHANGED <<conn, timeout, stream, delivered, recvd, last, calls, riak, loop, request, workers>>

\* the server writes a reply frame; the socket delivers all of it, or a
\* part of it and then ends
read_reply ==
    /\ wire.phase = "sent"
    /\ \E rcode \in {wire.expected, OtherCode(wire.code), "RpbErrorResp"} :
       \E rpayload \in (IF rcode = "RpbErrorResp"
                         THEN {error_resp_bytes(c, ErrMsg) : c \in {42}}
                         ELSE Payloads) :
       LET whole == frame_bytes(code_byte(rcode), rpayload) IN
       \E k \in 0..Len(whole) :
         wire' = [wire EXCEPT !.phase = "replied", !.rcode = rcode,
                              !.rpayload = rpayload, !.whole = whole,
                              !.inb = SubSeq(whole, 1, k)]
    /\ UNCHANGED <<conn, timeout, stream, delivered, recvd, last, calls, riak, loop, request, workers>>

\* RiakConn::receive, parse_from_bytes on the payload, and the return of the
\* operation; in next() a failure of either is followed by a reconnect
read_return ==
    /\ wire.phase = "replied"
    /\ LET r == read_frame(wire.inb, code_byte(wire.expected))
           p == IF IsErr(r.res) THEN r.res ELSE parse_from_bytes(r.res.val)
           c == read_conn(wire.op)
       IN IF wire.op = "next" /\ IsErr(p)
          THEN \E ok \in BOOLEAN :
                 LET f == reconnect_then_fail(conn[c], p.err, ok) IN
                 /\ wire' = [wire EXCEPT !.phase = "returned", !.got = r.res,
                                         !.res = f.res, !.reconn = f.reconn]
                 /\ conn' = [conn EXCEPT ![c] = f.conn]
                 /\ stream' = stream
          ELSE /\ wire' = [wire EXCEPT !.phase = "returned", !.got = r.res,
                                       !.res = p]
               /\ conn' = conn
               /\ IF wire.op = "next"
                  THEN \E done \in BOOLEAN :
                         stream' = [stream EXCEPT
                                      ![c] = [@ EXCEPT !.first_request_made = TRUE,
                                                       !.done = done]]
                  ELSE stream' = stream
    /\ UNCHANGED <<timeout, delivered, recvd, last, calls, riak, loop, request, workers>>

ReadNext == read_send \/ read_reply \/ read_return

ReadSpec == ReadInit /\ [][ReadNext]_vars

\* ------------------------------- an ObjectContent to the wire and back
\* an ObjectContent the caller built, any of its fields set
ContentInit ==
    /\ ClientInit
    /\ wire = NoWire
    /\ riak = NoRiak
    /\ loop = NoLoop
    /\ workers = NoWorkers
    /\ \E c \in ObjectContents :
         request = [phase |-> "built", op |-> "content", req |-> c,
                    rpb |-> RpbContent_new, frame |-> NoFrame, res |-> None]

\* the ObjectContent is converted for a request
content_to_rpb ==
    /\ request.phase = "built"
    /\ request' = [request EXCEPT
                     !.phase = "written",
                     !.rpb = object_content_to_rpb_content(request.req)]
    /\ UNCHANGED <<conn, timeout, stream, delivered, recvd, last, calls, wire, riak, loop, workers>>

\* the record comes back in a reply and is converted for the caller
rpb_to_content ==
    /\ request.phase = "written"
    /\ request' = [request EXCEPT
                     !.phase = "returned",
                     !.res = Ok(rpb_content_to_object_content(request.rpb))]
    /\ UNCHANGED <<conn, timeout, stream, delivered, recvd, last, calls, wire, riak, loop, workers>>

ContentNext == content_to_rpb \/ rpb_to_content

ContentSpec == ContentInit /\ [][ContentNext]_vars

\* ------------------------------------------------ the preflist of a key
\* the replicas of an object: n_val of the default bucket properties
N_VAL == 3
\* the entries of an RpbGetBucketKeyPreflistResp: partition (int64), node
\* (bytes) and primary (bool), all three required
Partitions == {0, 2147483647}
PreflistEntries == [partition : Partitions, node : Names, primary : BOOLEAN]
Preflists == UNION {[1..n -> PreflistEntries] : n \in 0..N_VAL}

\* PreflistItem::new(partition, node, is_primary)
PreflistItem_new(partition, node, is_primary) ==
    [partition |-> partition, node |-> node, is_primary |-> is_primary]

\* the loop of fetch_preflist over get_preflist(): one PreflistItem for
\* every entry, the node decoded by String::from_utf8_lossy
preflist_items(preflist) ==
    [i \in 1..Len(preflist) |->
       PreflistItem_new(preflist[i].partition,
                        String_from_utf8_lossy(preflist[i].node),
                        preflist[i].primary)]

\* the frames a node may write in answer to an RpbGetBucketKeyPreflistReq
PreflistReplies ==
    {DataFrame("RpbGetBucketKeyPreflistResp", p, FALSE) : p \in Preflists}
    \cup {GarbageFrame("RpbGetBucketKeyPreflistResp"), ErrorFrame(42, ErrMsg),
          GarbageFrame("RpbPingResp")}

\* the state of a Client just made and of the bucket and the key the caller
\* asks about
PreflistInit ==
    /\ ClientInit
    /\ wire = NoWire
    /\ riak = NoRiak
    /\ loop = NoLoop
    /\ workers = NoWorkers
    /\ \E bucket \in Names : \E key \in Names :
         request = [phase |-> "built", op |-> "fetch_preflist",
                    req |-> [bucket |-> bucket, key |-> key],
                    rpb |-> <<>>, frame |-> NoFrame, res |-> None]

\* Client::fetch_preflist(bucket, key): the request written, the reply of
\* the node read and parsed, an item made of every entry
fetch_preflist_of_node ==
    /\ request.phase = "built"
    /\ \E f \in PreflistReplies :
         LET cn0 == [conn["client"] EXCEPT !.reps = <<f>>, !.nsent = @ + 1] IN
         \E x \in exchange(cn0, "RpbGetBucketKeyPreflistReq",
                           "RpbGetBucketKeyPreflistResp") :
           /\ conn' = [conn EXCEPT !["client"] = [x.conn EXCEPT !.pending = <<>>]]
           /\ request' = [request EXCEPT
                            !.phase = "returned",
                            !.rpb = [bucket |-> Some(request.req.bucket),
                                     key |-> Some(request.req.key)],
                            !.frame = x.frame,
                            !.res = IF IsErr(x.res) THEN x.res
                                    ELSE IF ~x.frame.ok
                                    THEN Err(ProtobufError("parse"))
                                    ELSE Ok(preflist_items(x.frame.names))]
    /\ UNCHANGED <<timeout, stream, delivered, recvd, last, calls, wire, riak, loop, workers>>

PreflistNext == fetch_preflist_of_node

PreflistSpec == PreflistInit /\ [][PreflistNext]_vars

\* ------------------------------------------------------------ properties
StreamCall == last.op = "next" /\ last.who \in Streams
\* the operations of Client that are one exchange
ClientCall == last.who = "client" /\ last.request # "none"
\* all() on a stream, or the all() of list_buckets and list_keys
AllCall == last.op \in {"all", "list_buckets", "list_keys"} /\ last.nexts # <<>>

\* C1: the batches returned by the successful next() calls of a stream are
\* exactly the batches of the frames the server sent, in the order it sent
\* them, and they end on and include the batch of the first frame whose done
\* flag is true.
C1_BatchesAreFramesSent ==
    \A s \in Streams :
      /\ Len(delivered[s]) = Len(recvd[s])
      /\ \A i \in 1..Len(recvd[s]) :
           /\ delivered[s][i] = recvd[s][i].names
           /\ recvd[s][i].done => i = Len(recvd[s])
           /\ \A j \in 1..Len(recvd[s]) : i < j => recvd[s][i].seq < recvd[s][j].seq
      /\ stream[s].done =>
           /\ recvd[s] # <<>>
           /\ recvd[s][Len(recvd[s])].done

\* C2: a call that reads an RpbErrorResp frame fails with ServerError
\* carrying exactly the error code and the message bytes of the frame.
C2_ErrorRespIsServerError ==
    last.frame.code = "RpbErrorResp" =>
      last.res = Err([kind |-> "ServerError", cause |-> "",
                      code |-> last.frame.errcode, data |-> last.frame.errmsg])

\* C3: a next() that fails in send, in receive or in parsing the reply has
\* reconnected the stream's connection before it returns the error.
C3_StreamFailureReconnects ==
    (StreamCall /\ IsErr(last.res)) => last.reconn # "none"

\* C7: no request frame is written on a socket on which an earlier request
\* is still unanswered, a reply is still unread, or a stream has not reached
\* done.
C7_OneInFlight == last.outstanding <= 0

\* C4: when a next() fails and the reconnect that follows fails too, next()
\* returns the reconnect error; when the reconnect succeeds, next() returns
\* the error that led to it.
C4_ReconnectErrorSupersedes ==
    StreamCall =>
      /\ last.reconn = "failed" => last.res = Err(IoError("reconnect"))
      /\ last.reconn = "ok" => (last.orig # NoErr /\ last.res = Err(last.orig))
C4_Witness ==
    StreamCall /\ last.reconn = "failed" /\ last.orig # NoErr

\* C5 as stated: whenever the payload of a reply fails to parse, in a Client
\* operation as in a stream, the connection is reconnected before the error
\* is returned.
C5_AnyParseFailureReconnects ==
    last.orig = ProtobufError("parse") => last.reconn # "none"
\* C5 as amended: a reply that fails to parse in a stream's next() makes it
\* reconnect (a new socket replaces the old one) before it returns; in a
\* Client operation it is returned as ProtobufError and the connection is
\* left as it is.
C5_StreamParseFailureReconnects ==
    last.orig = ProtobufError("parse") =>
      /\ StreamCall =>
           /\ last.reconn # "none"
           /\ conn[last.who].gen = last.gen0 + 1
      /\ ClientCall =>
           /\ last.reconn = "none"
           /\ conn["client"].gen = last.gen0
           /\ last.res = Err(ProtobufError("parse"))
C5_Witness ==
    StreamCall /\ last.wasFrm /\ last.orig = ProtobufError("parse")

\* C6: an operation of Client sends at most once and receives at most once,
\* never reconnects, leaves the socket in place, and returns the error of a
\* failed exchange as it is.
C6_ClientNoRetryNoReconnect ==
    ClientCall =>
      /\ last.sends <= 1
      /\ last.recvs <= 1
      /\ last.reconn = "none"
      /\ conn["client"].gen = last.gen0
      /\ IsErr(last.res) => last.res = Err(last.orig)
C6_Witness ==
    ClientCall /\ IsErr(last.res) /\ last.orig.kind = "IoError" /\ last.recvs = 1

\* C8 as stated: on every connection, of a Client as of a stream, the n-th
\* reply frame read is the server's reply to the n-th request written.
C8_NthReplyAnswersNthRequest ==
    last.frame # NoFrame => last.frame.re = last.nth
\* C8 as amended: reply frames are read from a socket in the order the server
\* wrote them; on a Client's socket the n-th frame read is the reply to the
\* n-th request written on that socket; on a stream's socket one request has
\* been written and every frame read belongs to the reply to it.
C8_RepliesInOrder ==
    last.frame # NoFrame =>
      /\ last.frame.seq = last.nth
      /\ ClientCall => last.frame.re = last.nth
      /\ StreamCall => (last.nreq = 1 /\ last.frame.re = 1)
C8_Witness ==
    StreamCall /\ last.frame # NoFrame /\ last.nth = 2

\* C9: a reply whose code is neither the expected code nor RpbErrorResp makes
\* the call fail (an IoError) and its payload is not returned; a reply whose
\* code is RpbErrorResp is turned into a ServerError whatever code was
\* expected.
C9_ReplyCodeChecked ==
    last.frame # NoFrame =>
      /\ last.frame.code \notin {last.expected, "RpbErrorResp"} =>
           /\ IsErr(last.res)
           /\ last.orig = IoError("unexpected_code")
      /\ last.frame.code = "RpbErrorResp" =>
           /\ IsErr(last.res)
           /\ last.orig.kind = "ServerError"
C9_Witness ==
    /\ last.frame # NoFrame
    /\ last.frame.code \notin {last.expected, "RpbErrorResp"}
    /\ last.res = Err(IoError("unexpected_code"))

\* C10: once done is true it stays true, the socket of the stream is not
\* touched again, and every next() returns None without a send or a receive.
C10_DoneIsTerminal ==
    [][\A s \in Streams :
         stream[s].done =>
           /\ stream'[s].done
           /\ conn'[s] = conn[s]
           /\ (last'.who = s /\ last'.op = "next" /\ calls' = calls + 1) =>
                (last'.res = None /\ last'.sends = 0 /\ last'.recvs = 0)]_vars
C10_Witness ==
    StreamCall /\ last.wasDone /\ last.res = None

\* C11: all() calls next() until it returns None or an error.  When no next()
\* fails it returns the batches of all of them concatenated in order, the last
\* one being the batch of the done frame; when a next() fails, all() stops
\* there and returns that error and no list.
RECURSIVE Concat(_)
Concat(seqs) == IF seqs = <<>> THEN <<>> ELSE Head(seqs) \o Concat(Tail(seqs))
C11_AllConcatenatesOrFails ==
    AllCall =>
      LET n == Len(last.nexts)
          batches == [i \in 1..(n - 1) |-> last.nexts[i].res.val]
      IN /\ \A i \in 1..(n - 1) :
              /\ last.nexts[i].res.tag = "Ok"
              /\ last.nexts[i].frame.done <=> (i = n - 1 /\ last.nexts[n].res = None)
         /\ last.nexts[n].res.tag # "Ok"
         /\ last.nexts[n].res = None => last.res = Ok(Concat(batches))
         /\ IsErr(last.nexts[n].res) => last.res = last.nexts[n].res
C11_Witness ==
    /\ AllCall
    /\ Len(last.nexts) = 3
    /\ last.res.tag = "Ok"
    /\ Len(last.res.val) = 2
    /\ last.res.val[1] # last.res.val[2]

\* C12: a live stream has a connection of its own, opened to the address and
\* with the timeout of the Client's connection.  A step of a stream (its
\* creation, next(), all(), list_buckets, list_keys) leaves the Client's
\* connection as it is, an exchange of the Client leaves every stream and its
\* connection as they are, and the frame a call reads is one the server wrote
\* on the caller's own socket, in answer to a request written on that socket.
C12_StreamsOwnConnection ==
    [][/\ \A s \in Streams :
            stream'[s].live =>
              /\ conn'[s].peer_addr = conn'["client"].peer_addr
              /\ conn'[s].timeout = conn'["client"].timeout
       /\ (last'.who \in Streams \/ last'.op \in {"list_buckets", "list_keys"}) =>
            conn'["client"] = conn["client"]
       /\ (last'.who = "client") =>
            /\ stream' = stream
            /\ \A s \in Streams : conn'[s] = conn[s]
       /\ last'.frame # NoFrame =>
            /\ last'.frame.re \in 1..last'.nreq
            /\ last'.frame.seq = last'.nth]_vars
C12_Witness ==
    /\ ClientCall
    /\ last.res.tag = "Ok"
    /\ last.frame.re = 1
    /\ \E s \in Streams :
         /\ stream[s].first_request_made
         /\ ~stream[s].done
         /\ conn[s].nrep = 1

\* C13: a call that makes an exchange (an operation of Client, or the first
\* next() of a stream) sends once; when the send fails it receives nothing
\* and fails with the error of the send; when the send succeeds it receives
\* once, fails with the error of the receive if there is one, and otherwise
\* holds a reply frame of the expected code, whose payload it returns.
ExchangeCall == ClientCall \/ (StreamCall /\ ~last.wasFrm /\ ~last.wasDone)
C13_ExchangeIsSendThenReceive ==
    ExchangeCall =>
      /\ last.sends = 1
      /\ last.outstanding < 0 =>
           /\ last.recvs = 0
           /\ last.frame = NoFrame
           /\ last.orig = IoError("send")
      /\ last.outstanding >= 0 =>
           /\ last.recvs = 1
           /\ last.frame = NoFrame => last.orig \in {IoError("closed"), IoError("timeout")}
           /\ last.frame.code = "RpbErrorResp" =>
                last.orig = ServerError_new(last.frame.errcode, last.frame.errmsg)
           /\ (last.frame # NoFrame /\ last.frame.code \notin {"RpbErrorResp", last.expected})
                => last.orig = IoError("unexpected_code")
           /\ last.orig \in {NoErr, ProtobufError("parse")} =>
                last.frame.code = last.expected
      /\ ClientCall =>
           /\ IsErr(last.res) <=> last.orig # NoErr
           /\ IsErr(last.res) => last.res = Err(last.orig)
           /\ last.res.tag = "Ok" => last.res.val = last.frame.names
C13_Witness ==
    ExchangeCall /\ last.outstanding < 0 /\ last.orig = IoError("send")

\* C14: every call expects the response code the protocol pairs with the
\* request code it sends: get_bucket_type_properties expects RpbGetBucketResp,
\* set_bucket_type_properties expects RpbSetBucketResp, set_yokozuna_schema
\* and set_yokozuna_index expect RpbPutResp, delete_yokozuna_index expects
\* RpbDelResp, and every other operation the response of its own pair.
C14_ReusesHonored ==
    last.request # "none" =>
      /\ last.expected = RespOf(last.request)
      /\ last.op = "get_bucket_type_properties" =>
           (last.request = "RpbGetBucketTypeReq" /\ last.expected = "RpbGetBucketResp")
      /\ last.op = "set_bucket_type_properties" =>
           (last.request = "RpbSetBucketTypeReq" /\ last.expected = "RpbSetBucketResp")
      /\ last.op = "set_yokozuna_schema" =>
           (last.request = "RpbYokozunaSchemaPutReq" /\ last.expected = "RpbPutResp")
      /\ last.op = "set_yokozuna_index" =>
           (last.request = "RpbYokozunaIndexPutReq" /\ last.expected = "RpbPutResp")
      /\ last.op = "delete_yokozuna_index" =>
           (last.request = "RpbYokozunaIndexDeleteReq" /\ last.expected = "RpbDelResp")
C14_Witness ==
    /\ ClientCall
    /\ last.op = "set_yokozuna_schema"
    /\ last.res.tag = "Ok"
    /\ last.frame.code = "RpbPutResp"

\* C15: send(code, P) writes len(P) + 5 bytes: the length len(P) + 1 as a u32
\* in big-endian order, then the code, then the bytes of P.  The four bytes
\* of the length are the big-endian digits of len(P) + 1 for the lengths a
\* signed 32-bit integer holds.
Lengths == {0, 1, 254, 255, 256, 65534, 65535, 16777214, 16777215, 2147483646}
C15_SendWritesLengthCodePayload ==
    /\ wire.phase \in {"sent", "replied", "received"} =>
         LET L == Len(wire.payload) IN
         /\ Len(wire.out) = L + 5
         /\ SubSeq(wire.out, 1, 4) = <<0, 0, 0, L + 1>>
         /\ wire.out[5] = code_byte(wire.code)
         /\ SubSeq(wire.out, 6, L + 5) = wire.payload
    /\ \A L \in Lengths :
         /\ Len(be32(L + 1)) = 4
         /\ \A i \in 1..4 : be32(L + 1)[i] \in 0..255
         /\ from_be32(be32(L + 1)) = L + 1
C15_Witness ==
    /\ wire.phase = "sent"
    /\ wire.payload = <<255, 0>>
    /\ wire.out = <<0, 0, 0, 3, 13, 255, 0>>

\* C16: when the server wrote a frame of the expected code, receive returns
\* the payload of that frame byte for byte and leaves what follows the frame
\* on the socket; a frame written by send(code, P) is read back as P.
C16_ReceiveReturnsPayload ==
    /\ (wire.phase = "received" /\ wire.rcode = wire.expected) =>
         /\ wire.got = Ok(wire.rpayload)
         /\ wire.unread = wire.more
    /\ \A P \in Payloads : \A c \in {1, 2, 12} :
         read_frame(frame_bytes(c, P), c) = [res |-> Ok(P), rest |-> <<>>]
C16_Witness ==
    /\ wire.phase = "received"
    /\ wire.rpayload = <<0, 255>>
    /\ wire.got = Ok(<<0, 255>>)
    /\ wire.more # <<>>

\* C17: ping and server_info write a frame of length 1, the code alone; ping,
\* set_bucket_properties and delete_object succeed when the reply is a frame
\* of length 1 with the expected code.
C17_EmptyPayloadFrames ==
    /\ (wire.phase # "new" /\ wire.op \in {"ping", "server_info"}) =>
         wire.out = <<0, 0, 0, 1, code_byte(wire.code)>>
    /\ (/\ wire.phase = "received"
        /\ wire.op \in {"ping", "set_bucket_properties", "delete_object"}
        /\ wire.rcode = wire.expected
        /\ wire.rpayload = <<>>) =>
         /\ SubSeq(wire.inb, 1, 5) = <<0, 0, 0, 1, code_byte(wire.expected)>>
         /\ wire.res = Ok(<<>>)
C17_Witness ==
    /\ wire.phase = "received"
    /\ wire.op = "ping"
    /\ wire.out = <<0, 0, 0, 1, 1>>
    /\ wire.inb = <<0, 0, 0, 1, 2>>
    /\ wire.res = Ok(<<>>)

\* C18: after set_timeout(t) the requests of the Client and the streams made
\* from it use the timeout t: the connection a request is made on, and the
\* connection of a stream just made, have the timeout the Client holds.
C18_SetTimeoutGoverns ==
    /\ ClientCall => conn["client"].timeout = timeout
    /\ (last.op \in {"stream_buckets", "stream_keys"} /\ last.res.tag = "Ok") =>
         conn[last.who].timeout = timeout

\* C19: no step changes the address or the timeout a connection recorded when
\* it was opened; reconnect() replaces the socket by a new one, with nothing
\* written or waiting on it, opened to that address with that timeout.
C19_ReconnectKeepsAddressAndTimeout ==
    [][/\ \A c \in ConnIds :
            conn[c] # NoConn =>
              /\ conn'[c].peer_addr = conn[c].peer_addr
              /\ conn'[c].timeout = conn[c].timeout
       /\ (last'.op = "reconnect" /\ calls' = calls + 1) =>
            /\ conn'["client"].gen = conn["client"].gen + 1
            /\ conn'["client"].pending = <<>>
            /\ conn'["client"].reps = <<>>
            /\ conn'["client"].alive <=> (last'.res.tag = "Ok")
            /\ conn'["client"].peer_addr = Addr]_vars
C19_Witness ==
    /\ last.op = "reconnect"
    /\ last.res.tag = "Ok"
    /\ conn["client"].gen = 2
    /\ conn["client"].timeout = 5
    /\ timeout = DEFAULT_TIMEOUT

\* C20: when store_object of a value and then fetch_object of the same bucket
\* and key both succeed on a Client, the first content of the response has
\* that value, byte for byte.
C20_StoreThenFetchRoundTrip ==
    (/\ riak.prev.op = "store_object" /\ riak.prev.res.tag = "Ok"
     /\ riak.cur.op = "fetch_object" /\ riak.cur.res.tag = "Ok") =>
      /\ riak.cur.res.val # <<>>
      /\ riak.cur.res.val[1].value = riak.prev.arg.value

C22_SetThenGetPropsPreserved ==
    (/\ \/ /\ riak.prev.op = "set_bucket_properties"
           /\ riak.cur.op = "get_bucket_properties"
        \/ /\ riak.prev.op = "set_bucket_type_properties"
           /\ riak.cur.op = "get_bucket_type_properties"
     /\ riak.prev.res.tag = "Ok" /\ riak.cur.res.tag = "Ok") =>
      LET p == riak.prev.arg.props
          q == riak.cur.res.val
      IN /\ p.has_backend => (q.has_backend /\ q.backend = p.backend)
         /\ p.has_n_val => (q.has_n_val /\ q.n_val = p.n_val)

\* C23: when set_yokozuna_schema(name, content) and then
\* get_yokozuna_schema(name) both succeed on a Client, the bytes returned are
\* the content, byte for byte.
C23_SetThenGetSchema ==
    (/\ riak.prev.op = "set_yokozuna_schema" /\ riak.prev.res.tag = "Ok"
     /\ riak.cur.op = "get_yokozuna_schema" /\ riak.cur.res.tag = "Ok") =>
      riak.cur.res.val = riak.prev.arg.content

\* C24: every call returns either Ok with its data or Err with one error,
\* which is an IoError, a ProtobufError or a ServerError and nothing else:
\* a ServerError when the reply is an RpbErrorResp, a ProtobufError when the
\* payload of the reply does not parse, an IoError when no frame or a frame
\* of another code was read.  Only next() on a stream that is done yields no
\* result: that is End-of-stream.
ErrorKinds == {"IoError", "ProtobufError", "ServerError"}
C24_OkOrOneOfThreeErrors ==
    last.op # "none" =>
      /\ \/ last.res.tag \in {"Ok", "Err"}
         \/ (last.res = None /\ last.op = "next" /\ last.wasDone)
      /\ last.res.tag = "Ok" => last.res.err = NoErr
      /\ last.res.tag = "Err" =>
           /\ last.res.err.kind \in ErrorKinds
           /\ last.res.val = <<>>
           /\ last.res.err.kind # "ServerError" =>
                (last.res.err.code = 0 /\ last.res.err.data = <<>>)
      /\ (ClientCall /\ last.res.tag = "Err") =>
           /\ last.frame.code = "RpbErrorResp" <=> last.res.err.kind = "ServerError"
           /\ last.frame.code = last.expected <=> last.res.err.kind = "ProtobufError"
           /\ (last.frame = NoFrame \/ last.frame.code \notin {"RpbErrorResp", last.expected})
                <=> last.res.err.kind = "IoError"
C24_Witness ==
    /\ ClientCall
    /\ last.op = "fetch_preflist"
    /\ last.frame.code = "RpbGetBucketKeyPreflistResp"
    /\ last.res = Err(ProtobufError("parse"))

\* C25: a stream just made has first_request_made = false and done = false
\* and nothing is written on its connection; the first next() writes the
\* request and, when it succeeds, has read one frame and set
\* first_request_made; every later next() that is not at the end of the
\* stream writes nothing and reads one frame; next() at the end of the stream
\* writes and reads nothing.  On the connection the stream was made with, one
\* request is written once first_request_made is set and none before.
C25_OneRequestPerStream ==
    /\ (last.op \in {"stream_buckets", "stream_keys"} /\ last.res.tag = "Ok") =>
         /\ ~stream[last.who].first_request_made
         /\ ~stream[last.who].done
         /\ conn[last.who].nreq = 0
         /\ last.sends = 0
    /\ StreamCall =>
         /\ (~last.wasDone /\ ~last.wasFrm) =>
              /\ last.sends = 1
              /\ last.res.tag = "Ok" =>
                   (last.recvs = 1 /\ stream[last.who].first_request_made)
         /\ (~last.wasDone /\ last.wasFrm) =>
              (last.sends = 0 /\ last.recvs = 1 /\ stream[last.who].first_request_made)
         /\ last.wasDone => (last.sends = 0 /\ last.recvs = 0 /\ last.res = None)
    /\ \A s \in Streams :
         (stream[s].live /\ conn[s].gen = 1) =>
           conn[s].nreq = IF stream[s].first_request_made THEN 1 ELSE 0
C25_Witness ==
    /\ StreamCall
    /\ last.wasFrm /\ ~last.wasDone
    /\ last.res.tag = "Ok"
    /\ last.sends = 0 /\ last.recvs = 1
    /\ conn[last.who].gen = 1 /\ conn[last.who].nreq = 1
    /\ Len(delivered[last.who]) = 2

\* C26: when no call fails and the server sends its done frame, next()
\* returns End-of-stream in the end and every all() that was called returns;
\* once the done frame is read no other frame is read from the connection.
C26_StreamTerminates ==
    /\ <>(last.op = "next" /\ last.res = None /\ stream["stream"].done)
    /\ (loop.phase = "all") ~> (loop.phase = "idle" /\ loop.res.tag = "Ok")
    /\ [][stream["stream"].done =>
            /\ conn'["stream"].nrep = conn["stream"].nrep
            /\ recvd' = recvd
            /\ stream'["stream"].done]_vars
C26_Witness ==
    /\ loop.phase = "idle" /\ loop.res.tag = "Ok" /\ Len(loop.list) = 2
    /\ last.op = "next" /\ last.res = None
    /\ Len(recvd["stream"]) = 3
    /\ recvd["stream"][3].done
    /\ conn["stream"].nrep = 3

C28_StoreDiscardsReply ==
    (request.phase = "returned" /\ request.op = "store_object") =>
      /\ request.rpb.return_body = request.req.return_body
      /\ request.rpb.return_head = request.req.return_head
      /\ request.frame.code = "RpbPutResp" => request.res = Ok(<<>>)
C28_Witness ==
    /\ request.phase = "returned" /\ request.op = "store_object"
    /\ request.req.return_body.has
    /\ request.frame.code = "RpbPutResp"
    /\ request.frame.names # <<>>
    /\ request.res = Ok(<<>>)

\* C29: nothing in an operation keeps another one from writing and reading
\* on the same connection between its send and its receive.  When every
\* worker holds a Client of its own, every frame a worker reads answers a
\* request of that worker; when two workers use the same Client, a worker
\* can read the reply to the request of the other (C29_Witness).
C29_OwnClientNoCrossRead ==
    ~workers.shared =>
      \A w \in Workers :
        workers.got[w] # NoFrame => workers.by[w] = w
C29_Witness ==
    /\ workers.shared
    /\ workers.got[2] # NoFrame
    /\ workers.by[2] = 1
    /\ workers.code[2] = "RpbGetReq"
    /\ workers.got[2].code = "RpbGetResp"

\* C30: when a call on a Client failed and the socket stayed open, and the
\* next call on that Client succeeds, the frame it read is the reply of the
\* node to the request that call wrote, the latest written on the socket.
C30_NextExchangeReadsOwnReply ==
    (/\ riak.prev.op # "none" /\ riak.prev.res.tag = "Err"
     /\ riak.cur.res.tag = "Ok"
     /\ conn["client"].alive) =>
      last.frame.re = last.nreq

\* C31: a next() that returns an error leaves done and first_request_made
\* as they were; a next() on a stream whose first request was not made
\* sends the request once, also after an earlier next() failed and the
\* connection was reconnected, unless the request could not be serialized
C31_FailedNextKeepsFlags ==
    StreamCall =>
      /\ IsErr(last.res) =>
           /\ stream[last.who].done = last.wasDone
           /\ stream[last.who].first_request_made = last.wasFrm
      /\ (~last.wasDone /\ ~last.wasFrm /\ last.orig # ProtobufError("write_to_bytes"))
           => /\ last.sends = 1
              /\ last.gen0 > 1 /\ last.frame # NoFrame => last.nreq = 1

\* a first next() failed and the connection was reconnected; the next()
\* after it sent the request on the new connection and read a reply
C31_Witness ==
    /\ StreamCall
    /\ ~last.wasFrm
    /\ last.gen0 = 2
    /\ last.sends = 1
    /\ last.frame # NoFrame
    /\ last.res.tag = "Ok"

\* C32: a next() on a stream whose first request was made and that is not
\* done sends nothing and receives once; when the connection of the stream
\* is one on which no request was written (the connection made by the
\* reconnect after a reply that did not parse), the call reads no frame and
\* returns IoError
C32_BrokenStreamOnlyReceives ==
    (StreamCall /\ last.wasFrm /\ ~last.wasDone) =>
      /\ last.sends = 0
      /\ last.recvs = 1
      /\ (last.reconn = "none" /\ conn[last.who].nreq = 0)
           => /\ last.frame = NoFrame
              /\ IsErr(last.res)
              /\ last.res.err.kind = "IoError"

\* the first request was made, a later reply did not parse and the stream
\* reconnected; the next() after that waited on the new connection until
\* the read timed out
C32_Witness ==
    /\ StreamCall
    /\ last.wasFrm
    /\ ~last.wasDone
    /\ last.gen0 = 2
    /\ last.reconn = "none"
    /\ conn[last.who].alive
    /\ conn[last.who].nreq = 0
    /\ last.res = Err(IoError("timeout"))

\* C33: a stream that is done has made its first request, and
\* first_request_made never goes back from true to false
C33_DoneImpliesRequestMade ==
    /\ [](\A s \in Streams : stream[s].done => stream[s].first_request_made)
    /\ [][\A s \in Streams :
            stream[s].first_request_made => stream'[s].first_request_made]_vars

\* a stream that is done after more than one next()
C33_Witness ==
    /\ StreamCall
    /\ last.wasFrm
    /\ ~last.wasDone
    /\ stream[last.who].done
    /\ stream[last.who].first_request_made

\* C34: a call whose request could not be serialized returns ProtobufError,
\* sends nothing, receives nothing and does not reconnect; every connection
\* and the done and first_request_made flags of every stream are as before
C34_SerializeFailureTouchesNothing ==
    [][(calls' # calls /\ last'.orig = ProtobufError("write_to_bytes")) =>
         /\ last'.res = Err(ProtobufError("write_to_bytes"))
         /\ last'.sends = 0
         /\ last'.recvs = 0
         /\ last'.reconn = "none"
         /\ last'.frame = NoFrame
         /\ conn' = conn
         /\ stream' = stream]_vars

\* the request of a first next() could not be serialized, on a stream whose
\* connection was reconnected by an earlier failure
C34_Witness ==
    /\ StreamCall
    /\ last.res = Err(ProtobufError("write_to_bytes"))
    /\ last.gen0 = 2
    /\ conn[last.who].gen = 2
    /\ ~stream[last.who].first_request_made

\* the operation returned after it read a whole frame of the expected code
\* whose payload is no record
ParseFailed ==
    /\ wire.phase = "returned"
    /\ wire.inb = wire.whole
    /\ wire.rcode = wire.expected
    /\ ~is_record(wire.rpayload)

\* the operation returned after the socket ended within the reply frame
ShortRead ==
    /\ wire.phase = "returned"
    /\ Len(wire.inb) < Len(wire.whole)

\* C35 as stated: a reply payload that does not parse makes the operation
\* return ProtobufError, a frame cut short makes it return IoError
C35_ErrorKindsKeptApart ==
    /\ ParseFailed => (IsErr(wire.res) /\ wire.res.err.kind = "ProtobufError")
    /\ ShortRead => (IsErr(wire.res) /\ wire.res.err.kind = "IoError")

\* C35: a reply payload that does not parse makes an operation of Client
\* return ProtobufError; it makes next() reconnect and return ProtobufError
\* when the reconnect succeeded and the IoError of the reconnect when it
\* failed; a frame cut short makes every operation return IoError
C35_ErrorKindsApartUnlessReconnectFails ==
    /\ ParseFailed =>
         /\ wire.got = Ok(wire.rpayload)
         /\ wire.op # "next" =>
              (wire.reconn = "none" /\ wire.res = Err(ProtobufError("parse")))
         /\ wire.op = "next" =>
              \/ wire.reconn = "ok" /\ wire.res = Err(ProtobufError("parse"))
              \/ wire.reconn = "failed" /\ wire.res = Err(IoError("reconnect"))
    /\ ShortRead =>
         /\ wire.got = Err(IoError("short_read"))
         /\ IsErr(wire.res)
         /\ wire.res.err.kind = "IoError"

\* the reply to the first request of a stream did not parse and the
\* reconnect after it failed
C35_Witness ==
    /\ ParseFailed
    /\ wire.op = "next"
    /\ wire.reconn = "failed"
    /\ wire.res = Err(IoError("reconnect"))

\* C36: an ObjectContent converted to an RpbContent and back has the value,
\* the content_type, the charset and the content_encoding it had, and no
\* vtag, last_mod, last_mod_usecs or deleted, whatever it had
C36_ContentRoundTrip ==
    request.phase = "returned" =>
      LET back == request.res.val IN
      /\ back.value = request.req.value
      /\ back.content_type = request.req.content_type
      /\ back.charset = request.req.charset
      /\ back.content_encoding = request.req.content_encoding
      /\ ~back.vtag.has
      /\ ~back.last_mod.has
      /\ ~back.last_mod_usecs.has
      /\ ~back.deleted.has

\* an ObjectContent with every field set went to the wire and came back
C36_Witness ==
    /\ request.phase = "returned"
    /\ \A f \in {"content_type", "charset", "content_encoding", "vtag",
                  "last_mod", "last_mod_usecs", "deleted"} :
         request.req[f].has /\ request.rpb[f] = request.req[f]
    /\ request.res.val.charset = request.req.charset
    /\ ~request.res.val.vtag.has

\* C37: fetch_preflist returns one PreflistItem for every entry of the
\* reply, in the order of the entries, with the partition, the node and the
\* primary flag of the entry; when the reply has N_VAL entries of which one
\* is primary, so has the list returned
C37_PreflistItemsAreEntries ==
    (request.phase = "returned" /\ request.res.tag = "Ok") =>
      LET items == request.res.val
          entries == request.frame.names
      IN /\ Len(items) = Len(entries)
         /\ \A i \in 1..Len(entries) :
              /\ items[i].partition = entries[i].partition
              /\ items[i].node = entries[i].node
              /\ items[i].is_primary = entries[i].primary
         /\ (Len(entries) = N_VAL /\ \E i \in 1..N_VAL : entries[i].primary)
              => (Len(items) = N_VAL /\ \E i \in 1..N_VAL : items[i].is_primary)

====
